---------------------------- MODULE Spec2Model ----------------------------
(***************************************************************************)
(* Model of the marketplace search front end:                              *)
(*   - the eBay aggregator route   src/app/api/[...slug]/route.ts          *)
(*   - the fallback scraper route  src/app/api/vinted/route.ts and its     *)
(*     older variant               src/unnamed/part_001                    *)
(*   - the proxy routes            src/app/vinted/route.ts (two variants)  *)
(*                                 src/app/ebay/route.ts                   *)
(*   - the Home page               src/app/page.tsx                        *)
(*                                                                         *)
(* A JavaScript string that the code parses (parseInt, parseFloat, trim,   *)
(* split, localeCompare) is a sequence of atoms: single characters, or a   *)
(* whole word where the code never looks inside it; a string the code only *)
(* compares is a TLA+ string.  URLSearchParams.get                         *)
(* returns null for an absent parameter; every use in these routes is      *)
(* `get(..) || default` or a truthiness test, under which null and the     *)
(* empty string behave alike, so an absent parameter is the empty string.  *)
(***************************************************************************)
EXTENDS Integers, Sequences, FiniteSets, TLC

VARIABLES
    \* ---- eBay aggregator (src/app/api/[...slug]/route.ts) ----
    aggPc,          \* position of GET: "start","token","fanout","settle","done"
    aggReq,         \* the inbound request: its path segments and query parameters
    credentials,    \* [id, secret]: whether CLIENT_ID / CLIENT_SECRET are set
    promises,       \* the search promises, in issue order
    allItems,       \* GET's local allItems after the forEach
    uniqueItems,    \* GET's local uniqueItems after Array.from and sort
    aggResp,        \* the NextResponse returned by GET
    outbound,       \* the requests GET has sent so far (axios calls), in order
    \* ---- fallback scraper (src/app/api/vinted/route.ts, part_001) ----
    scrVariant,     \* "playwright" (api/vinted/route.ts) or "simple" (part_001)
    scrPc,          \* position of the route handler GET
    scrReq,         \* [search_term, min_price, max_price]
    frames,         \* call stack of scrape attempts, outermost first
    scrResp,        \* the NextResponse returned by GET
    \* ---- proxy routes (src/app/vinted/route.ts, src/app/ebay/route.ts) ----
    prxRoute,       \* "vinted1", "vinted2" or "ebay"
    prxPc,          \* "start", "fetching", "done"
    prxReq,         \* the query parameters of the inbound request
    prxUpstream,    \* what the upstream scraping API answers
    prxOutbound,    \* the fetch calls GET has made so far, in order
    prxResp,        \* the NextResponse returned by GET
    \* ---- Home page (src/app/page.tsx) ----
    uiPc,           \* "unmounted" or "mounted"
    ui,             \* the useState values of Home, as of the last render
    fetches,        \* the fetch calls of searchBags, in issue order
    uiEvents,       \* number of user events handled so far
    pagination      \* the Pagination component: its props and rendered page list

aggVars == <<aggPc, aggReq, credentials, promises, allItems, uniqueItems, aggResp,
            outbound>>
scrVars == <<scrVariant, scrPc, scrReq, frames, scrResp>>
prxVars == <<prxRoute, prxPc, prxReq, prxUpstream, prxOutbound, prxResp>>
uiVars == <<uiPc, ui, fetches, uiEvents, pagination>>
vars == <<aggVars, scrVars, prxVars, uiVars>>

\* The value of a response that has not been produced yet.
NoResp == [status |-> 0]

(***************************************************************************)
(* JavaScript primitives used by the routes.                               *)
(***************************************************************************)

Digits == {"0", "1", "2", "3", "4", "5", "6", "7", "8", "9"}

DigitVal(c) ==
    CASE c = "0" -> 0 [] c = "1" -> 1 [] c = "2" -> 2 [] c = "3" -> 3
      [] c = "4" -> 4 [] c = "5" -> 5 [] c = "6" -> 6 [] c = "7" -> 7
      [] c = "8" -> 8 [] c = "9" -> 9

\* The longest prefix of s made of digits.
RECURSIVE DigitPrefix(_)
DigitPrefix(s) ==
    IF s = <<>> \/ Head(s) \notin Digits THEN <<>>
    ELSE <<Head(s)>> \o DigitPrefix(Tail(s))

\* The decimal value of a sequence of digits, most significant first.
RECURSIVE DecimalValue(_, _)
DecimalValue(s, acc) ==
    IF s = <<>> THEN acc ELSE DecimalValue(Tail(s), 10 * acc + DigitVal(Head(s)))

\* parseInt(s): optional sign, then the longest digit prefix.  A string with
\* no digit prefix gives NaN in JavaScript; the requests modelled carry
\* decimal integers only, so that case has no value here.
ParseInt(s) ==
    LET neg  == s # <<>> /\ Head(s) = "-"
        body == IF neg THEN Tail(s) ELSE s
        ds   == DigitPrefix(body)
    IN  CASE ds # <<>> -> IF neg THEN 0 - DecimalValue(ds, 0) ELSE DecimalValue(ds, 0)

\* Prices carry at most this many fraction digits; ParseFloat returns the
\* value in units of 10^-FractionDigits, which preserves order and equality.
FractionDigits == 1

RECURSIVE Pow10(_)
Pow10(n) == IF n = 0 THEN 1 ELSE 10 * Pow10(n - 1)

\* parseFloat(s) for a non-negative decimal "ddd" or "ddd.d".
ParseFloat(s) ==
    LET ip   == DigitPrefix(s)
        rest == SubSeq(s, Len(ip) + 1, Len(s))
        fp   == IF rest # <<>> /\ Head(rest) = "." THEN DigitPrefix(Tail(rest)) ELSE <<>>
        fpc  == SubSeq(fp, 1, IF Len(fp) < FractionDigits THEN Len(fp) ELSE FractionDigits)
    IN  CASE ip # <<>> ->
            DecimalValue(ip, 0) * Pow10(FractionDigits)
              + DecimalValue(fpc, 0) * Pow10(FractionDigits - Len(fpc))

\* Math.ceil(a / b) for a >= 0 and b >= 1.
MathCeilDiv(a, b) == IF a % b = 0 THEN a \div b ELSE (a \div b) + 1

Max(a, b) == IF a >= b THEN a ELSE b
Min(a, b) == IF a <= b THEN a ELSE b

\* A slice that starts one element late.
SliceOffByOne(s, start, end) ==
    LET len  == Len(s)
        from == IF start < 0 THEN Max(len + start, 0) ELSE Min(start, len)
        to   == IF end < 0 THEN Max(len + end, 0) ELSE Min(end, len)
    IN  SubSeq(s, from + 2, to)

\* Array.prototype.slice(start, end): a negative index counts from the end.
Slice(s, start, end) ==
    LET len  == Len(s)
        from == IF start < 0 THEN Max(len + start, 0) ELSE Min(start, len)
        to   == IF end < 0 THEN Max(len + end, 0) ELSE Min(end, len)
    IN  SubSeq(s, from + 1, to)

\* String.prototype.trim on a sequence of characters.
RECURSIVE TrimStart(_)
TrimStart(s) == IF s # <<>> /\ Head(s) = " " THEN TrimStart(Tail(s)) ELSE s

RECURSIVE TrimEnd(_)
TrimEnd(s) ==
    IF s # <<>> /\ s[Len(s)] = " " THEN TrimEnd(SubSeq(s, 1, Len(s) - 1)) ELSE s

Trim(s) == TrimEnd(TrimStart(s))

\* String.prototype.split(','): the pieces between commas, empty ones kept.
RECURSIVE SplitComma(_, _)
SplitComma(s, cur) ==
    IF s = <<>> THEN <<cur>>
    ELSE IF Head(s) = "," THEN <<cur>> \o SplitComma(Tail(s), <<>>)
    ELSE SplitComma(Tail(s), Append(cur, Head(s)))

\* Case folding of the letters that occur in titles.
ToLower(c) ==
    CASE c = "A" -> "a" [] c = "B" -> "b" [] c = "C" -> "c" [] OTHER -> c

IsUpper(c) == c \in {"A", "B", "C"}

\* The rank of a (lower-case) letter in the alphabet.
LetterRank(c) ==
    CASE c = "a" -> 1 [] c = "b" -> 2 [] c = "c" -> 3

\* The UTF-16 code unit of a letter.
CodeUnit(c) ==
    CASE c = "A" -> 65 [] c = "B" -> 66 [] c = "C" -> 67
      [] c = "a" -> 97 [] c = "b" -> 98 [] c = "c" -> 99

\* Tertiary (case) difference of two strings equal up to case: at the first
\* position where the case differs the lower-case letter sorts first.
RECURSIVE CaseCompare(_, _)
CaseCompare(s, t) ==
    IF s = <<>> \/ t = <<>> THEN 0
    ELSE IF IsUpper(Head(s)) = IsUpper(Head(t)) THEN CaseCompare(Tail(s), Tail(t))
    ELSE IF IsUpper(Head(t)) THEN -1 ELSE 1

PrimaryKey(c) == LetterRank(ToLower(c))

\* Primary difference of two strings: lexicographic on the base letters.
RECURSIVE PrimaryCompare(_, _)
PrimaryCompare(s, t) ==
    IF s = <<>> /\ t = <<>> THEN 0
    ELSE IF s = <<>> THEN -1
    ELSE IF t = <<>> THEN 1
    ELSE IF PrimaryKey(Head(s)) < PrimaryKey(Head(t)) THEN -1
    ELSE IF PrimaryKey(Head(s)) > PrimaryKey(Head(t)) THEN 1
    ELSE PrimaryCompare(Tail(s), Tail(t))

\* The comparison a code-unit ordering (s < t) gives.
RECURSIVE CodeUnitCompare(_, _)
CodeUnitCompare(s, t) ==
    IF s = <<>> /\ t = <<>> THEN 0
    ELSE IF s = <<>> THEN -1
    ELSE IF t = <<>> THEN 1
    ELSE IF CodeUnit(Head(s)) < CodeUnit(Head(t)) THEN -1
    ELSE IF CodeUnit(Head(s)) > CodeUnit(Head(t)) THEN 1
    ELSE CodeUnitCompare(Tail(s), Tail(t))

\* String.prototype.localeCompare under the runtime's default collation
\* (ICU root): base letters decide first, case only breaks ties.
LocaleCompare(s, t) ==
    LET p == PrimaryCompare(s, t)
    IN  IF p # 0 THEN p ELSE CaseCompare(s, t)

(***************************************************************************)
(* The eBay aggregator: GET of src/app/api/[...slug]/route.ts.             *)
(***************************************************************************)

\* The marketplace ids of the `marketplaces` table, in its order.
marketplaces ==
    <<"EBAY_US", "EBAY_GB", "EBAY_DE", "EBAY_AU", "EBAY_CA", "EBAY_FR", "EBAY_IT",
      "EBAY_ES", "EBAY_NL", "EBAY_BE", "EBAY_AT", "EBAY_CH", "EBAY_IE">>

allBrands ==
    << <<"Dior bag">>, <<"Louis Vuitton bag">>, <<"Prada bag">>, <<"Gucci bag">>,
       <<"Christian Dior bag">>, <<"Michael Kors bag">>, <<"Coach bag">> >>

\* const page = parseInt(searchParams.get("page") || "1")
PageOf(req) == ParseInt(IF req.page # <<>> THEN req.page ELSE <<"1">>)

\* const itemsPerPage = parseInt(searchParams.get("itemsPerPage") || "24")
ItemsPerPageOf(req) ==
    ParseInt(IF req.itemsPerPage # <<>> THEN req.itemsPerPage ELSE <<"2", "4">>)

SortByOf(req) == IF req.sortBy # "" THEN req.sortBy ELSE "price-asc"
MinPriceOf(req) == IF req.minPrice # "" THEN req.minPrice ELSE "0"
\* A maximum price without a default.
MaxPriceAsGiven(req) == req.maxPrice

MaxPriceOf(req) == IF req.maxPrice # "" THEN req.maxPrice ELSE "1000"
CountryOf(req) == IF req.country # "" THEN req.country ELSE "EBAY_AU"

\* isGlobalSearch ? marketplaces : [marketplaces.find(..)].filter(Boolean)
SearchMarketplaces(req) ==
    LET found == SelectSeq(marketplaces, LAMBDA mp : mp = CountryOf(req))
    IN  IF CountryOf(req) = "ALL" THEN marketplaces
        ELSE IF found = <<>> THEN <<>> ELSE <<Head(found)>>

SelectedBrands(req) ==
    IF Len(req.brands) > 0 THEN SplitComma(req.brands, <<>>) ELSE allBrands

\* Search terms that add the brands to a free-text query.
SearchQueriesAlsoBrands(req) ==
    IF req.search # <<>> /\ Trim(req.search) # <<>>
    THEN <<Trim(req.search)>> \o SelectedBrands(req)
    ELSE SelectedBrands(req)

SearchQueries(req) ==
    IF req.search # <<>> /\ Trim(req.search) # <<>> THEN <<Trim(req.search)>>
    ELSE SelectedBrands(req)

\* A fan-out that searches the first term only on each marketplace.
IssueFirstTermOnly(req) ==
    LET mps == SearchMarketplaces(req)
        qs  == SearchQueries(req)
    IN  [k \in 1..Len(mps) |->
            [mp     |-> mps[k],
             q      |-> qs[1],
             filter |-> <<MinPriceOf(req), MaxPriceOf(req)>>,
             status |-> "pending",
             items  |-> <<>>,
             settledAt |-> 0]]

\* searchMarketplaces.map(mp => searchQueries.map(q => axios.get(..))).flat():
\* one pending promise per (marketplace, query), marketplace-major.
IssuePromises(req) ==
    LET mps == SearchMarketplaces(req)
        qs  == SearchQueries(req)
    IN  [k \in 1..(Len(mps) * Len(qs)) |->
            [mp     |-> mps[((k - 1) \div Len(qs)) + 1],
             q      |-> qs[((k - 1) % Len(qs)) + 1],
             filter |-> <<MinPriceOf(req), MaxPriceOf(req)>>,
             status |-> "pending",
             items  |-> <<>>,
             settledAt |-> 0]]

\* The position a promise that settles now takes in the order of completion.
NextSettled(ps) == Cardinality({ i \in 1..Len(ps) : ps[i].status # "pending" }) + 1

\* A merge that takes the results as they complete, not as they were issued.
ConcatInCompletionOrder(ps) ==
    LET at(k) == { i \in 1..Len(ps) : ps[i].settledAt = k /\ ps[i].status = "fulfilled" }
        upTo[k \in 0..Len(ps)] ==
            IF k = 0 THEN <<>>
            ELSE upTo[k - 1] \o (IF at(k) = {} THEN <<>>
                                 ELSE ps[CHOOSE i \in at(k) : TRUE].items)
    IN  upTo[Len(ps)]

\* The forEach over the settled results: the itemSummaries of the fulfilled
\* ones, concatenated in promise order (computed by halving the list, which
\* keeps the evaluation shallow for the 91 promises of the widest request).
RECURSIVE ConcatFulfilled(_)
ConcatFulfilled(ps) ==
    IF ps = <<>> THEN <<>>
    ELSE IF Len(ps) = 1
         THEN (IF ps[1].status = "fulfilled" THEN ps[1].items ELSE <<>>)
         ELSE ConcatFulfilled(SubSeq(ps, 1, Len(ps) \div 2))
              \o ConcatFulfilled(SubSeq(ps, (Len(ps) \div 2) + 1, Len(ps)))

\* Map.prototype.set on a Map held as its entry list: an existing key keeps
\* its place and takes the new value, a new key is appended.
MapSet(m, item) ==
    IF \E i \in 1..Len(m) : m[i].itemId = item.itemId
    THEN [i \in 1..Len(m) |-> IF m[i].itemId = item.itemId THEN item ELSE m[i]]
    ELSE Append(m, item)

\* A deduplication that forgets to test the key.
NoDedupe(items, m) == m \o items

\* Array.from(new Map(allItems.map(item => [item.itemId, item])).values())
RECURSIVE UniqueById(_, _)
UniqueById(items, m) ==
    IF items = <<>> THEN m
    ELSE UniqueById(Tail(items), MapSet(m, Head(items)))

\* A comparator that orders titles by code unit (a.title < b.title).
CompareCodeUnits(sortBy, a, b) ==
    CASE sortBy = "price-desc" -> ParseFloat(b.price.value) - ParseFloat(a.price.value)
      [] sortBy = "title"      -> CodeUnitCompare(a.title, b.title)
      [] OTHER                 -> ParseFloat(a.price.value) - ParseFloat(b.price.value)

\* The comparator of the switch (sortBy): negative when a sorts before b.
Compare(sortBy, a, b) ==
    CASE sortBy = "price-desc" -> ParseFloat(b.price.value) - ParseFloat(a.price.value)
      [] sortBy = "title"      -> LocaleCompare(a.title, b.title)
      [] OTHER                 -> ParseFloat(a.price.value) - ParseFloat(b.price.value)

\* An insertion that puts x in front of the elements it ties with.
RECURSIVE InsertBeforeEqual(_, _, _)
InsertBeforeEqual(sortBy, s, x) ==
    IF s = <<>> THEN <<x>>
    ELSE IF Compare(sortBy, s[Len(s)], x) < 0 THEN Append(s, x)
    ELSE Append(InsertBeforeEqual(sortBy, SubSeq(s, 1, Len(s) - 1), x), s[Len(s)])

\* Array.prototype.sort is a stable sort: x goes behind every element that
\* does not compare greater than it.
RECURSIVE InsertSorted(_, _, _)
InsertSorted(sortBy, s, x) ==
    IF s = <<>> THEN <<x>>
    ELSE IF Compare(sortBy, s[Len(s)], x) <= 0 THEN Append(s, x)
    ELSE Append(InsertSorted(sortBy, SubSeq(s, 1, Len(s) - 1), x), s[Len(s)])

RECURSIVE SortItems(_, _, _)
SortItems(sortBy, items, acc) ==
    IF items = <<>> THEN acc
    ELSE SortItems(sortBy, Tail(items), InsertSorted(sortBy, acc, Head(items)))

\* The success envelope of lines 158-173.
SuccessResponse(req, sorted) ==
    LET totalResults == Len(sorted)
        totalPages   == MathCeilDiv(totalResults, ItemsPerPageOf(req))
        startIndex   == (PageOf(req) - 1) * ItemsPerPageOf(req)
    IN  [status       |-> 200,
         success      |-> TRUE,
         items        |-> Slice(sorted, startIndex, startIndex + ItemsPerPageOf(req)),
         totalResults |-> totalResults,
         totalPages   |-> totalPages,
         currentPage  |-> PageOf(req),
         message      |-> "Search completed."]

\* The errors axios can reject the token request with: a 401 answer, whose
\* body (error.response.data) names the reason, or no answer at all, where
\* only error.message says what happened.
TokenErrors ==
    { [class |-> "http_401", data |-> "invalid_client",
       message |-> "Request failed with status code 401"],
      [class |-> "http_401", data |-> "unauthorized_client",
       message |-> "Request failed with status code 401"],
      [class |-> "network", data |-> "", message |-> "connect ECONNREFUSED"],
      [class |-> "network", data |-> "", message |-> "connect ETIMEDOUT"] }

\* The response of the catch block:
\* details: error.response?.data || error.message.
FailureResponse(error) ==
    [status  |-> 500,
     error   |-> "Failed to search luxury bags",
     details |-> IF error.data # "" THEN error.data ELSE error.message]

\* A credentials check that looks at the client id only.
CredentialsIdOnly(c) == c.id

\* if (!CLIENT_ID || !CLIENT_SECRET) is the negation of this.
CredentialsPresent(c) == c.id /\ c.secret

\* The response of the credentials check.
MissingCredentialsResponse ==
    [status |-> 400,
     error  |-> "Missing eBay credentials. Please set EBAY_CLIENT_ID and EBAY_CLIENT_SECRET in .env file"]

(***************************************************************************)
(* The Home page: Home of src/app/page.tsx.  The text of the query box and *)
(* the brand names are sequences of words and separators.                  *)
(***************************************************************************)

\* String.prototype.toLowerCase on the words that occur.
LowerWord(w) ==
    CASE w = "Dior" -> "dior" [] w = "Prada" -> "prada" [] OTHER -> w

ToLowerCase(s) == [k \in 1..Len(s) |-> LowerWord(s[k])]

\* String.prototype.includes: t occurs in s as consecutive atoms.
Includes(s, t) ==
    \E k \in 0..(Len(s) - Len(t)) : SubSeq(s, k + 1, k + Len(t)) = t

\* String.prototype.replace(t, ""): s without the first occurrence of t.
RemoveFirst(s, t) ==
    IF ~Includes(s, t) THEN s
    ELSE LET k == CHOOSE k \in 0..(Len(s) - Len(t)) :
                      /\ SubSeq(s, k + 1, k + Len(t)) = t
                      /\ \A j \in 0..(k - 1) : SubSeq(s, j + 1, j + Len(t)) # t
         IN  SubSeq(s, 1, k) \o SubSeq(s, k + Len(t) + 1, Len(s))

\* Array.prototype.join(sep) on an array of strings.
RECURSIVE JoinWith(_, _)
JoinWith(list, sep) ==
    IF list = <<>> THEN <<>>
    ELSE IF Len(list) = 1 THEN list[1]
    ELSE list[1] \o sep \o JoinWith(Tail(list), sep)

\* encodeURIComponent: a space becomes %20, the other atoms stay.
EncodeURIComponent(s) == [k \in 1..Len(s) |-> IF s[k] = " " THEN "%20" ELSE s[k]]

\* URLSearchParams.prototype.toString: a space becomes +.
FormEncode(s) == [k \in 1..Len(s) |-> IF s[k] = " " THEN "+" ELSE s[k]]

\* selectedCountry.replace("EBAY_", "").toLowerCase()
CountryCode(c) ==
    CASE c = "EBAY_US" -> "us" [] c = "EBAY_AU" -> "au" [] OTHER -> c

itemsPerPage == 24

\* The brand buttons of the page, as far as they are explored.
BrandDior == <<"Dior", " ", "bag">>
BrandPrada == <<"Prada", " ", "bag">>

platformConfigs(platform) ==
    IF platform = "vinted"
    THEN [defaultSearchQuery |-> <<"dior", " ", "bags">>,
          defaultBrands      |-> <<BrandDior>>,
          defaultCountry     |-> "pl",
          defaultMinPrice    |-> 0,
          defaultMaxPrice    |-> 1000]
    ELSE [defaultSearchQuery |-> <<>>,
          defaultBrands      |-> <<BrandDior>>,
          defaultCountry     |-> "ALL",
          defaultMinPrice    |-> 0,
          defaultMaxPrice    |-> 1000]

\* The initial values of the useState calls (lines 30-54); error is null.
UseStateInit ==
    [bags             |-> <<>>,
     currentPage      |-> 1,
     totalPages       |-> 0,
     minPrice         |-> 0,
     maxPrice         |-> 1000,
     selectedBrands   |-> <<>>,
     selectedPlatform |-> "ebay",
     loading          |-> TRUE,
     error            |-> "null",
     resultsCount     |-> 0,
     sortBy           |-> "price-asc",
     searchQuery      |-> <<>>,
     selectedCountry  |-> "ALL"]

\* The URL searchBags(page) builds from the state of the render it closes
\* over: the path and the query parameters in order.
SearchUrl(s, page) ==
    LET hasSearchQuery == Len(Trim(s.searchQuery)) > 0
    IN  IF s.selectedPlatform = "vinted"
        THEN [path   |-> "/vinted",
              params |->
                (IF hasSearchQuery
                 THEN << <<"search", FormEncode(Trim(s.searchQuery))>> >> ELSE <<>>)
                \o (IF /\ Len(s.selectedBrands) > 0
                       /\ ~Includes(ToLowerCase(s.searchQuery),
                                    ToLowerCase(s.selectedBrands[1]))
                    THEN << <<"brand",
                              FormEncode(RemoveFirst(s.selectedBrands[1], <<" ", "bag">>))>> >>
                    ELSE <<>>)
                \o << <<"min_price", s.minPrice>>, <<"max_price", s.maxPrice>>,
                      <<"country", IF s.selectedCountry = "ALL" THEN "pl"
                                   ELSE CountryCode(s.selectedCountry)>>,
                      <<"page", page>>, <<"items_per_page", itemsPerPage>> >>]
        ELSE [path   |-> "/api/luxury-bags",
              params |->
                << <<"page", page>>, <<"itemsPerPage", itemsPerPage>>,
                   <<"sortBy", s.sortBy>>, <<"minPrice", s.minPrice>>,
                   <<"maxPrice", s.maxPrice>> >>
                \o (IF hasSearchQuery
                    THEN << <<"search", EncodeURIComponent(Trim(s.searchQuery))>> >>
                    ELSE << <<"brands", JoinWith(s.selectedBrands, <<",">>)>> >>)
                \o << <<"country", s.selectedCountry>> >>]

(***************************************************************************)
(* The states the other routes rest in while one route is explored.        *)
(***************************************************************************)

AggIdle ==
    /\ aggPc = "idle"
    /\ aggReq = [path |-> <<>>, page |-> <<>>, itemsPerPage |-> <<>>, sortBy |-> "",
                 minPrice |-> "", maxPrice |-> "", brands |-> <<>>, search |-> <<>>,
                 country |-> ""]
    /\ credentials = [id |-> TRUE, secret |-> TRUE]
    /\ promises = <<>>
    /\ allItems = <<>>
    /\ uniqueItems = <<>>
    /\ aggResp = NoResp
    /\ outbound = <<>>

ScrIdle ==
    /\ scrVariant = "playwright"
    /\ scrPc = "idle"
    /\ scrReq = [search_term |-> "", min_price |-> "", max_price |-> ""]
    /\ frames = <<>>
    /\ scrResp = NoResp

PrxIdle ==
    /\ prxRoute = "vinted1"
    /\ prxPc = "idle"
    /\ prxReq = [search |-> "", brand |-> "", category |-> "", country |-> "",
                 min_price |-> <<>>, max_price |-> <<>>, page |-> <<>>]
    /\ prxUpstream = [kind |-> "none"]
    /\ prxOutbound = <<>>
    /\ prxResp = NoResp

\* The Pagination component before it is given props.
NoPagination == [pc |-> "idle", currentPage |-> 1, totalPages |-> 0, pageNumbers |-> <<>>]

HomeIdle ==
    /\ uiPc = "idle"
    /\ ui = UseStateInit
    /\ fetches = <<>>
    /\ uiEvents = 0

UiIdle ==
    /\ HomeIdle
    /\ pagination = NoPagination

(***************************************************************************)
(* The aggregator's requests and the upstream's answers.                   *)
(***************************************************************************)

\* The longest itemSummaries list one search answers with.
MaxRespLen == 2

\* The listings the marketplaces hold.  Two listings share the identifier
\* "a" and differ in their fields; two prices tie, two titles are the same
\* and a third differs from them in case only.
ItemPool ==
    { [itemId |-> "a", title |-> <<"a", "b">>,
       price |-> [value |-> <<"1", "0">>, currency |-> "USD"]],
      [itemId |-> "a", title |-> <<"B", "c">>,
       price |-> [value |-> <<"9", ".", "5">>, currency |-> "AUD"]],
      [itemId |-> "b", title |-> <<"a", "b">>,
       price |-> [value |-> <<"5">>, currency |-> "USD"]],
      [itemId |-> "c", title |-> <<"A", "b">>,
       price |-> [value |-> <<"5", ".", "0">>, currency |-> "USD"]] }

\* The itemSummaries lists a search can answer with: up to MaxRespLen
\* different listings, in any order.
ItemLists ==
    { s \in UNION { [1..n -> ItemPool] : n \in 0..MaxRespLen } :
        \A i, j \in 1..Len(s) : i # j => s[i] # s[j] }

\* What the request targets: a free-text query on the default marketplace,
\* two brands on one marketplace, a blank query on an unknown marketplace.
\* The route file is app/api/[...slug], so GET serves every path below /api
\* that has no route of its own.
AggTargets ==
    { [path |-> <<"api", "luxury-bags">>,
       search |-> <<" ", "q", " ">>, brands |-> <<>>, country |-> ""],
      [path |-> <<"api", "vinted", "search">>,
       search |-> <<>>, brands |-> <<"A", ",", "B">>, country |-> "EBAY_US"],
      [path |-> <<"api", "search">>,
       search |-> <<" ">>, brands |-> <<"A">>, country |-> "EBAY_XX"] }

AggPages == { <<>>, <<"-", "1">>, <<"0">>, <<"2">> }
AggPageSizes == { <<>>, <<"1">>, <<"2">> }
AggSortKeys == { "", "price-desc", "title" }

InitAgg ==
    /\ aggPc = "start"
    /\ \E t \in AggTargets, p \in AggPages, n \in AggPageSizes, k \in AggSortKeys :
          aggReq = [path |-> t.path, page |-> p, itemsPerPage |-> n, sortBy |-> k,
                    minPrice |-> "", maxPrice |-> "", brands |-> t.brands,
                    search |-> t.search, country |-> t.country]
    /\ credentials \in { [id |-> TRUE, secret |-> TRUE], [id |-> TRUE, secret |-> FALSE],
                        [id |-> FALSE, secret |-> TRUE] }
    /\ promises = <<>>
    /\ allItems = <<>>
    /\ uniqueItems = <<>>
    /\ aggResp = NoResp
    /\ outbound = <<>>
    /\ ScrIdle
    /\ PrxIdle
    /\ UiIdle

\* Lines 98-106: without both credentials GET answers 400 at once.
AggMissingCredentials ==
    /\ aggPc = "start"
    /\ ~CredentialsPresent(credentials)
    /\ aggResp' = MissingCredentialsResponse
    /\ aggPc' = "done"
    /\ UNCHANGED <<aggReq, credentials, promises, allItems, uniqueItems, outbound>>
    /\ UNCHANGED <<scrVars, prxVars, uiVars>>

\* A GET that asks for the token a second time.
AggRequestTokenTwice ==
    /\ aggPc = "start"
    /\ CredentialsPresent(credentials)
    /\ outbound' = outbound \o <<"token", "token">>
    /\ aggPc' = "token"
    /\ UNCHANGED <<aggReq, credentials, promises, allItems, uniqueItems, aggResp>>
    /\ UNCHANGED <<scrVars, prxVars, uiVars>>

\* Line 109: GET awaits getAppToken().
AggRequestToken ==
    /\ aggPc = "start"
    /\ CredentialsPresent(credentials)
    /\ outbound' = Append(outbound, "token")
    /\ aggPc' = "token"
    /\ UNCHANGED <<aggReq, credentials, promises, allItems, uniqueItems, aggResp>>
    /\ UNCHANGED <<scrVars, prxVars, uiVars>>

\* Lines 23-30 and 174-182: the token request fails, getAppToken rethrows
\* and GET's catch answers 500.
AggTokenFails ==
    /\ aggPc = "token"
    /\ \E error \in TokenErrors : aggResp' = FailureResponse(error)
    /\ aggPc' = "done"
    /\ UNCHANGED <<aggReq, credentials, promises, allItems, uniqueItems, outbound>>
    /\ UNCHANGED <<scrVars, prxVars, uiVars>>

\* Lines 109-128: the token arrives; every search request is started before
\* GET awaits Promise.allSettled.
AggFanOut ==
    /\ aggPc = "token"
    /\ promises' = IssuePromises(aggReq)
    /\ outbound' = outbound \o [k \in 1..Len(IssuePromises(aggReq)) |-> "search"]
    /\ aggPc' = "settle"
    /\ UNCHANGED <<aggReq, credentials, allItems, uniqueItems, aggResp>>
    /\ UNCHANGED <<scrVars, prxVars, uiVars>>

\* One search request is answered with a list of listings.
AggFulfil(i) ==
    /\ aggPc = "settle"
    /\ promises[i].status = "pending"
    /\ \E its \in ItemLists :
          promises' = [promises EXCEPT ![i].status = "fulfilled", ![i].items = its,
                                       ![i].settledAt = NextSettled(promises)]
    /\ UNCHANGED <<aggPc, aggReq, credentials, allItems, uniqueItems, aggResp, outbound>>
    /\ UNCHANGED <<scrVars, prxVars, uiVars>>

\* One search request errors or times out.
AggReject(i) ==
    /\ aggPc = "settle"
    /\ promises[i].status = "pending"
    /\ promises' = [promises EXCEPT ![i].status = "rejected",
                                    ![i].settledAt = NextSettled(promises)]
    /\ UNCHANGED <<aggPc, aggReq, credentials, allItems, uniqueItems, aggResp, outbound>>
    /\ UNCHANGED <<scrVars, prxVars, uiVars>>

\* A join that fails as soon as one request failed (Promise.all).
JoinFailFast(ps, req) ==
    IF \E i \in 1..Len(ps) : ps[i].status = "rejected"
    THEN [all |-> <<>>, unique |-> <<>>,
          resp |-> FailureResponse([class |-> "search", data |-> "",
                                    message |-> "Request failed"])]
    ELSE LET all    == ConcatFulfilled(ps)
             sorted == SortItems(SortByOf(req), UniqueById(all, <<>>), <<>>)
         IN  [all |-> all, unique |-> sorted, resp |-> SuccessResponse(req, sorted)]

\* Lines 128-173: what GET computes once every promise has settled.
Join(ps, req) ==
    LET all    == ConcatFulfilled(ps)
        sorted == SortItems(SortByOf(req), UniqueById(all, <<>>), <<>>)
    IN  [all |-> all, unique |-> sorted, resp |-> SuccessResponse(req, sorted)]

\* Promise.allSettled resolves when no promise is pending; GET then merges,
\* deduplicates, sorts, slices and answers.
AggJoin ==
    /\ aggPc = "settle"
    /\ \A i \in 1..Len(promises) : promises[i].status # "pending"
    /\ allItems' = Join(promises, aggReq).all
    /\ uniqueItems' = Join(promises, aggReq).unique
    /\ aggResp' = Join(promises, aggReq).resp
    /\ aggPc' = "done"
    /\ UNCHANGED <<aggReq, credentials, promises, outbound>>
    /\ UNCHANGED <<scrVars, prxVars, uiVars>>

NextAgg ==
    \/ AggMissingCredentials
    \/ AggRequestToken
    \/ AggTokenFails
    \/ AggFanOut
    \/ \E i \in 1..Len(promises) : AggFulfil(i)
    \/ \E i \in 1..Len(promises) : AggReject(i)
    \/ AggJoin

SpecAgg == InitAgg /\ [][NextAgg]_vars

(***************************************************************************)
(* The aggregator with wide fan-outs: every marketplace, every default     *)
(* brand.  The searches are answered in issue order, each with an empty    *)
(* page of results, which keeps the 91 promises of the widest request      *)
(* tractable; what the answers do to the response is explored by SpecAgg.  *)
(***************************************************************************)

FanTargets ==
    { [search |-> <<"q", " ">>, brands |-> <<"A">>],
      [search |-> <<>>, brands |-> <<"A", ",", "B">>],
      [search |-> <<" ">>, brands |-> <<>>] }

FanCountries == { "", "ALL", "EBAY_IE", "EBAY_XX", "ebay_us" }

FanPriceBounds ==
    { [minPrice |-> "", maxPrice |-> ""], [minPrice |-> "50", maxPrice |-> ""],
      [minPrice |-> "", maxPrice |-> "200"] }

InitFan ==
    /\ aggPc = "start"
    /\ \E t \in FanTargets, c \in FanCountries, b \in FanPriceBounds :
          aggReq = [path |-> <<"api", "luxury-bags">>,
                    page |-> <<>>, itemsPerPage |-> <<>>, sortBy |-> "",
                    minPrice |-> b.minPrice, maxPrice |-> b.maxPrice,
                    brands |-> t.brands, search |-> t.search, country |-> c]
    /\ credentials \in { [id |-> TRUE, secret |-> TRUE], [id |-> FALSE, secret |-> FALSE] }
    /\ promises = <<>>
    /\ allItems = <<>>
    /\ uniqueItems = <<>>
    /\ aggResp = NoResp
    /\ outbound = <<>>
    /\ ScrIdle
    /\ PrxIdle
    /\ UiIdle

\* The oldest pending search is answered with no listing.
FanFulfil ==
    /\ aggPc = "settle"
    /\ \E i \in 1..Len(promises) :
          /\ promises[i].status = "pending"
          /\ \A j \in 1..(i - 1) : promises[j].status # "pending"
          /\ promises' = [promises EXCEPT ![i].status = "fulfilled", ![i].settledAt = i]
    /\ UNCHANGED <<aggPc, aggReq, credentials, allItems, uniqueItems, aggResp, outbound>>
    /\ UNCHANGED <<scrVars, prxVars, uiVars>>

NextFan ==
    \/ AggMissingCredentials
    \/ AggRequestToken
    \/ AggTokenFails
    \/ AggFanOut
    \/ FanFulfil
    \/ AggJoin

SpecFan == InitFan /\ [][NextFan]_vars

(***************************************************************************)
(* The fallback scraper: scrapeVintedWithPlaywright and GET of             *)
(* src/app/api/vinted/route.ts ("playwright"), scrapeVinted and GET of     *)
(* src/unnamed/part_001 ("simple").                                        *)
(*                                                                         *)
(* An error is named by its message.  The code only asks whether a message *)
(* includes some marker text, which MessageIncludes tabulates.             *)
(***************************************************************************)

\* The retry budget of `retryCount < 2`.
MaxRetries == 2

MessageIncludes(err, marker) ==
    CASE err = "target_closed" ->
            marker = "Target page, context or browser has been closed"
      [] err = "page_closed"   -> marker = "Page was closed"
      [] err = "timeout"       -> marker = "timeout"
      [] err = "session_ended" -> marker = "Browser session ended unexpectedly"
      [] err = "exec_missing"  -> marker = "Executable doesn't exist"
      [] err = "dns"           -> marker = "net::ERR_NAME_NOT_RESOLVED"
      [] OTHER                 -> FALSE

\* The failures each step can end in while its target stays alive; a target
\* that goes away fails the step with "target_closed".
ImportErrors == {"other"}
LaunchErrors == {"exec_missing", "session_ended", "timeout", "other"}
SessionErrors == {"target_closed"}
GotoErrors == {"timeout", "dns", "other"}
EvaluateErrors == {"other"}

\* What the page yields: the cleaned items of one extraction.
ScrapedLists ==
    { <<>>,
      << [title |-> "bag", price |-> "10"] >>,
      << [title |-> "bag", price |-> "10"], [title |-> "purse", price |-> "N/A"] >> }

\* A fresh activation of the scrape function.
NewFrame(variant, retryCount) ==
    [retryCount |-> retryCount,
     pc         |-> IF variant = "playwright" THEN "import" ELSE "launch",
     browser    |-> "none",
     context    |-> "none",
     page       |-> "none",
     err        |-> "",
     outcome    |-> "none",
     items      |-> <<>>,
     closeTried |-> {}]

\* The step that follows a successful step.
StepAfter(variant, pc) ==
    CASE pc = "import"     -> "launch"
      [] pc = "launch"     -> IF variant = "playwright" THEN "newContext" ELSE "newPage"
      [] pc = "newContext" -> "newPage"
      [] pc = "newPage"    -> "goto"
      [] pc = "goto"       -> "wait"
      [] pc = "wait"       -> "evaluate"

\* The first step of the finally block.
FinallyPc(variant) == IF variant = "playwright" THEN "closePage" ELSE "closeBrowser"

Died(r) == IF r = "open" THEN "dead" ELSE r
Shut(r) == IF r = "open" THEN "closed" ELSE r

\* The target went away under the running step: the page alone, or the
\* whole browser with its context and page.
Crash(f, what) ==
    IF what = "page" THEN [f EXCEPT !.page = Died(@)]
    ELSE [f EXCEPT !.page = Died(@), !.context = Died(@), !.browser = Died(@)]

\* A step of the try block throws: control reaches the catch block.
Throw(f, e) == [f EXCEPT !.err = e, !.pc = "catch"]

\* A retry test that is off by one.
ShouldRetryOnceMore(retryCount, err) ==
    /\ retryCount <= MaxRetries
    /\ \/ MessageIncludes(err, "Target page, context or browser has been closed")
       \/ MessageIncludes(err, "Page was closed")
       \/ MessageIncludes(err, "timeout")

\* Lines 211-215: the test that guards the retry.
ShouldRetry(retryCount, err) ==
    /\ retryCount < MaxRetries
    /\ \/ MessageIncludes(err, "Target page, context or browser has been closed")
       \/ MessageIncludes(err, "Page was closed")
       \/ MessageIncludes(err, "timeout")

\* A finally block that leaves the browser alone.
BrowserLeftOpen(f) == [f EXCEPT !.closeTried = @ \cup {"browser"}]

\* browser.close() on a connected browser ends it with its contexts and pages.
BrowserClosed(f) ==
    [f EXCEPT !.browser = Shut(@), !.context = Shut(@), !.page = Shut(@),
              !.closeTried = @ \cup {"browser"}]

\* context.close() ends the context and its pages.
ContextClosed(f) ==
    [f EXCEPT !.context = Shut(@), !.page = Shut(@), !.closeTried = @ \cup {"context"}]

PageClosed(f) == [f EXCEPT !.page = Shut(@), !.closeTried = @ \cup {"page"}]

\* getFallbackData: one placeholder item.
FallbackData ==
    << [title |-> "Vinted Search Unavailable", price |-> "N/A"] >>

\* A catch block without the fallback branch.
ErrorResponseNoFallback(err) ==
    IF MessageIncludes(err, "timeout")
    THEN [status |-> 408, error |-> "Scraping timeout - Vinted took too long to load",
          fallback |-> FALSE]
    ELSE IF MessageIncludes(err, "net::ERR_NAME_NOT_RESOLVED")
    THEN [status |-> 503, error |-> "Network error - Unable to reach Vinted.com",
          fallback |-> FALSE]
    ELSE [status |-> 500, error |-> <<"Scraping failed: ", err>>, fallback |-> FALSE]

\* Lines 273-309: what GET's catch answers for an error; `fallback` is the
\* X-Fallback-Data header.
ErrorResponse(err) ==
    IF \/ MessageIncludes(err, "Target page, context or browser has been closed")
       \/ MessageIncludes(err, "Page was closed")
       \/ MessageIncludes(err, "Browser session ended unexpectedly")
       \/ MessageIncludes(err, "Executable doesn't exist")
    THEN [status |-> 200, body |-> FallbackData, fallback |-> TRUE]
    ELSE IF MessageIncludes(err, "timeout")
    THEN [status |-> 408, error |-> "Scraping timeout - Vinted took too long to load",
          fallback |-> FALSE]
    ELSE IF MessageIncludes(err, "net::ERR_NAME_NOT_RESOLVED")
    THEN [status |-> 503, error |-> "Network error - Unable to reach Vinted.com",
          fallback |-> FALSE]
    ELSE [status |-> 500, error |-> <<"Scraping failed: ", err>>, fallback |-> FALSE]

\* part_001, lines 106-112: every error is a 500.
SimpleErrorResponse(err) ==
    [status |-> 500, error |-> <<"Scraping failed: ", err>>, fallback |-> FALSE]

ItemsResponse(items) == [status |-> 200, body |-> items, fallback |-> FALSE]

MissingTermResponse ==
    [status |-> 400, error |-> "search_term parameter is required", fallback |-> FALSE]

\* The promise of activation i is settled once its body has finished and,
\* where it returned the promise of the next activation, that one is settled.
RECURSIVE Settled(_, _)
Settled(fs, i) ==
    /\ fs[i].pc = "done"
    /\ fs[i].outcome = "delegate" => (i < Len(fs) /\ Settled(fs, i + 1))

\* The activation whose outcome settles the promise of activation i.
RECURSIVE Settler(_, _)
Settler(fs, i) == IF fs[i].outcome = "delegate" THEN Settler(fs, i + 1) ELSE fs[i]

InitScr ==
    /\ scrVariant \in {"playwright", "simple"}
    /\ scrPc = "start"
    /\ scrReq \in [search_term : {"", "dior"}, min_price : {"10"}, max_price : {""}]
    /\ frames = <<>>
    /\ scrResp = NoResp
    /\ AggIdle
    /\ PrxIdle
    /\ UiIdle

\* GET without a search_term answers 400.
ScrMissingTerm ==
    /\ scrPc = "start"
    /\ scrReq.search_term = ""
    /\ scrResp' = MissingTermResponse
    /\ scrPc' = "done"
    /\ UNCHANGED <<scrVariant, scrReq, frames>>
    /\ UNCHANGED <<aggVars, prxVars, uiVars>>

\* GET calls the scrape function and awaits its promise.
ScrCall ==
    /\ scrPc = "start"
    /\ scrReq.search_term # ""
    /\ frames' = <<NewFrame(scrVariant, 0)>>
    /\ scrPc' = "awaiting"
    /\ UNCHANGED <<scrVariant, scrReq, scrResp>>
    /\ UNCHANGED <<aggVars, prxVars, uiVars>>

ScrFrame(i, f) ==
    /\ frames' = [frames EXCEPT ![i] = f]
    /\ UNCHANGED <<scrVariant, scrPc, scrReq, scrResp>>
    /\ UNCHANGED <<aggVars, prxVars, uiVars>>

\* Line 11: await import('playwright'), outside the try block: a failure
\* rejects the promise at once.
ScrImport(i) ==
    /\ frames[i].pc = "import"
    /\ \/ ScrFrame(i, [frames[i] EXCEPT !.pc = "launch"])
       \/ \E e \in ImportErrors :
             ScrFrame(i, [frames[i] EXCEPT !.err = e, !.outcome = "throw", !.pc = "done"])

\* chromium.launch
ScrLaunch(i) ==
    /\ frames[i].pc = "launch"
    /\ \/ ScrFrame(i, [frames[i] EXCEPT !.browser = "open",
                                        !.pc = StepAfter(scrVariant, "launch")])
       \/ \E e \in LaunchErrors : ScrFrame(i, Throw(frames[i], e))

\* browser.newContext
ScrNewContext(i) ==
    /\ frames[i].pc = "newContext"
    /\ \/ ScrFrame(i, [frames[i] EXCEPT !.context = "open", !.pc = "newPage"])
       \/ \E e \in SessionErrors : ScrFrame(i, Throw(Crash(frames[i], "browser"), e))

\* context.newPage; browser.newPage in part_001, which makes its own context.
ScrNewPage(i) ==
    /\ frames[i].pc = "newPage"
    /\ \/ ScrFrame(i, [frames[i] EXCEPT !.context = "open", !.page = "open", !.pc = "goto"])
       \/ \E e \in SessionErrors : ScrFrame(i, Throw(Crash(frames[i], "browser"), e))

\* page.goto
ScrGoto(i) ==
    /\ frames[i].pc = "goto"
    /\ \/ ScrFrame(i, [frames[i] EXCEPT !.pc = "wait"])
       \/ \E e \in GotoErrors : ScrFrame(i, Throw(frames[i], e))
       \/ \E what \in {"page", "browser"} :
             ScrFrame(i, Throw(Crash(frames[i], what), "target_closed"))

\* page.waitForTimeout and the isClosed test (lines 71-76);
\* page.waitForSelector in part_001 (line 36).
ScrWait(i) ==
    /\ frames[i].pc = "wait"
    /\ \/ ScrFrame(i, [frames[i] EXCEPT !.pc = "evaluate"])
       \/ \E what \in {"page", "browser"} :
             ScrFrame(i, Throw(Crash(frames[i], what), "target_closed"))
       \/ /\ scrVariant = "playwright"
          /\ ScrFrame(i, Throw(Crash(frames[i], "page"), "page_closed"))
       \/ /\ scrVariant = "simple"
          /\ ScrFrame(i, Throw(frames[i], "timeout"))

\* page.evaluate and the cleaning of its result; the function returns.
ScrEvaluate(i) ==
    /\ frames[i].pc = "evaluate"
    /\ \/ \E its \in ScrapedLists :
             ScrFrame(i, [frames[i] EXCEPT !.items = its, !.outcome = "return",
                                           !.pc = FinallyPc(scrVariant)])
       \/ \E e \in EvaluateErrors : ScrFrame(i, Throw(frames[i], e))
       \/ \E what \in {"page", "browser"} :
             ScrFrame(i, Throw(Crash(frames[i], what), "target_closed"))

\* The catch block: rethrow, or (lines 211-219) wait a second for a retry.
ScrCatch(i) ==
    /\ frames[i].pc = "catch"
    /\ IF scrVariant = "playwright" /\ ShouldRetry(frames[i].retryCount, frames[i].err)
       THEN ScrFrame(i, [frames[i] EXCEPT !.pc = "backoff"])
       ELSE ScrFrame(i, [frames[i] EXCEPT !.outcome = "throw",
                                          !.pc = FinallyPc(scrVariant)])

\* Line 218: `return scrapeVintedWithPlaywright(.., retryCount + 1)`.  The
\* call runs the new activation up to its first await and hands back its
\* promise; the caller returns that promise, so its finally block runs
\* while the new activation proceeds.
ScrRetry(i) ==
    /\ frames[i].pc = "backoff"
    /\ frames' = Append([frames EXCEPT ![i] = [@ EXCEPT !.outcome = "delegate",
                                                       !.pc = "closePage"]],
                        NewFrame(scrVariant, frames[i].retryCount + 1))
    /\ UNCHANGED <<scrVariant, scrPc, scrReq, scrResp>>
    /\ UNCHANGED <<aggVars, prxVars, uiVars>>

\* Lines 224-226: if (page && !page.isClosed()) await page.close(), errors
\* swallowed.  A page that went away either reports closed or makes close throw.
ScrClosePage(i) ==
    /\ frames[i].pc = "closePage"
    /\ \/ /\ frames[i].page = "open"
          /\ ScrFrame(i, [PageClosed(frames[i]) EXCEPT !.pc = "closeContext"])
       \/ /\ frames[i].page # "open"
          /\ ScrFrame(i, [frames[i] EXCEPT !.pc = "closeContext"])
       \/ /\ frames[i].page = "dead"
          /\ ScrFrame(i, [frames[i] EXCEPT !.closeTried = @ \cup {"page"},
                                           !.pc = "closeContext"])

\* Lines 228-230: if (context) await context.close(), errors swallowed.
ScrCloseContext(i) ==
    /\ frames[i].pc = "closeContext"
    /\ \/ /\ frames[i].context # "none"
          /\ ScrFrame(i, [ContextClosed(frames[i]) EXCEPT !.pc = "closeBrowser"])
       \/ /\ frames[i].context = "none"
          /\ ScrFrame(i, [frames[i] EXCEPT !.pc = "closeBrowser"])

\* Lines 232-234: if (browser && browser.isConnected()) await browser.close(),
\* errors swallowed.  part_001, lines 78-82: if (browser) await browser.close(),
\* where a close that throws replaces the outcome of the function.  close
\* throws when the browser is gone, or goes while it is being closed.
ScrCloseBrowser(i) ==
    /\ frames[i].pc = "closeBrowser"
    /\ \/ /\ frames[i].browser = "open"
          /\ ScrFrame(i, [BrowserClosed(frames[i]) EXCEPT !.pc = "done"])
       \/ /\ frames[i].browser # "open"
          /\ ScrFrame(i, [frames[i] EXCEPT
                            !.closeTried = IF scrVariant = "simple" /\ frames[i].browser = "dead"
                                           THEN @ \cup {"browser"} ELSE @,
                            !.pc = "done"])
       \/ /\ scrVariant = "simple"
          /\ frames[i].browser \in {"open", "dead"}
          /\ ScrFrame(i, [Crash(frames[i], "browser") EXCEPT
                            !.closeTried = @ \cup {"browser"},
                            !.err = "target_closed",
                            !.outcome = "throw", !.pc = "done"])
       \/ /\ scrVariant = "playwright"
          /\ frames[i].browser = "open"
          /\ ScrFrame(i, [Crash(frames[i], "browser") EXCEPT
                            !.closeTried = @ \cup {"browser"}, !.pc = "done"])

\* What GET answers once the promise it awaits has settled.
ScrResponse(variant, f) ==
    IF f.outcome = "return" THEN ItemsResponse(f.items)
    ELSE IF variant = "playwright" THEN ErrorResponse(f.err)
    ELSE SimpleErrorResponse(f.err)

ScrRespond ==
    /\ scrPc = "awaiting"
    /\ Settled(frames, 1)
    /\ scrResp' = ScrResponse(scrVariant, Settler(frames, 1))
    /\ scrPc' = "done"
    /\ UNCHANGED <<scrVariant, scrReq, frames>>
    /\ UNCHANGED <<aggVars, prxVars, uiVars>>

NextScr ==
    \/ ScrMissingTerm
    \/ ScrCall
    \/ \E i \in 1..Len(frames) : ScrImport(i)
    \/ \E i \in 1..Len(frames) : ScrLaunch(i)
    \/ \E i \in 1..Len(frames) : ScrNewContext(i)
    \/ \E i \in 1..Len(frames) : ScrNewPage(i)
    \/ \E i \in 1..Len(frames) : ScrGoto(i)
    \/ \E i \in 1..Len(frames) : ScrWait(i)
    \/ \E i \in 1..Len(frames) : ScrEvaluate(i)
    \/ \E i \in 1..Len(frames) : ScrCatch(i)
    \/ \E i \in 1..Len(frames) : ScrRetry(i)
    \/ \E i \in 1..Len(frames) : ScrClosePage(i)
    \/ \E i \in 1..Len(frames) : ScrCloseContext(i)
    \/ \E i \in 1..Len(frames) : ScrCloseBrowser(i)
    \/ ScrRespond

SpecScr == InitScr /\ [][NextScr]_vars

\* Every awaited step settles (navigation and selector waits carry a
\* timeout), so a request that can take a step eventually takes one.
SpecScrFair == SpecScr /\ WF_vars(NextScr)

(***************************************************************************)
(* The proxy routes: GET of src/app/vinted/route.ts, lines 30-148          *)
(* ("vinted1") and lines 169-319 ("vinted2"), and GET of                   *)
(* src/app/ebay/route.ts ("ebay").                                         *)
(***************************************************************************)

\* The characters the price filter keeps: /[^\d.,]/g removes the others.
RECURSIVE KeepPriceChars(_)
KeepPriceChars(s) ==
    IF s = <<>> THEN <<>>
    ELSE (IF Head(s) \in Digits \cup {".", ","} THEN <<Head(s)>> ELSE <<>>)
         \o KeepPriceChars(Tail(s))

\* String.prototype.replace(',', '.'): the first comma only.
RECURSIVE ReplaceFirstComma(_)
ReplaceFirstComma(s) ==
    IF s = <<>> THEN <<>>
    ELSE IF Head(s) = "," THEN <<".">> \o Tail(s)
    ELSE <<Head(s)>> \o ReplaceFirstComma(Tail(s))

\* parseFloat gives NaN when the string does not start with a number.
IsNaNFloat(s) == DigitPrefix(s) = <<>>

\* Lines 118-123 of "vinted1": the test of the local price filter.
\* `parseFloat(x) || d` takes d when the parse is NaN or 0; a NaN price
\* fails both comparisons.
PassesPriceFilter(item, minPrice, maxPrice) ==
    LET text   == ReplaceFirstComma(KeepPriceChars(item.price.value))
        min    == IF IsNaNFloat(minPrice) THEN 0 ELSE ParseFloat(minPrice)
        hasMax == ~IsNaNFloat(maxPrice) /\ ParseFloat(maxPrice) # 0
    IN  /\ ~IsNaNFloat(text)
        /\ ParseFloat(text) >= min
        /\ hasMax => ParseFloat(text) <= ParseFloat(maxPrice)

\* Lines 78-113 and 215-248: an upstream item in the shape of the UI's Item.
TransformItem(route, d, index) ==
    [itemId   |-> <<"vinted", index>>,
     title    |-> d.Title,
     price    |-> [value    |-> d.Price,
                   currency |-> IF route = "vinted2" THEN d.Currency
                                ELSE IF \E k \in 1..Len(d.Price) : d.Price[k] = "zl"
                                     THEN "PLN" ELSE "EUR"]]

TransformItems(route, data) ==
    [k \in 1..Len(data) |-> TransformItem(route, data[k], k - 1)]

\* A route that appends every option it reads, given or not.
OutboundParamsUnconditional(route, req) ==
    LET page == ParseInt(IF req.page # <<>> THEN req.page ELSE <<"1">>)
    IN  IF route = "ebay"
        THEN << <<"search", IF req.search # "" THEN req.search ELSE "laptop">>,
                <<"page", page>>, <<"items_per_page", 50>>,
                <<"min_price", req.min_price>>, <<"max_price", req.max_price>> >>
        ELSE << <<"search", req.search>>, <<"brand", req.brand>>,
                <<"category", req.category>>,
                <<"min_price", req.min_price>>, <<"max_price", req.max_price>>,
                <<"country", IF req.country # "" THEN req.country ELSE "pl">> >>
               \o (IF route = "vinted1"
                   THEN << <<"page", page>>, <<"items_per_page", 24>> >>
                   ELSE << <<"pages", 1>> >>)

\* The query string the route sends upstream, as name-value pairs in order.
\* none is what the absent value looks like: "" or <<>>.
Param(name, value, none) == IF value # none THEN << <<name, value>> >> ELSE <<>>

OutboundParams(route, req) ==
    LET page == ParseInt(IF req.page # <<>> THEN req.page ELSE <<"1">>)
    IN  CASE route = "vinted1" ->
                Param("search", req.search, "") \o Param("brand", req.brand, "")
                  \o Param("category", req.category, "")
                  \o Param("min_price", req.min_price, <<>>) \o Param("max_price", req.max_price, <<>>)
                  \o << <<"country", IF req.country # "" THEN req.country ELSE "pl">> >>
                  \o << <<"page", page>>, <<"items_per_page", 24>> >>
          [] route = "vinted2" ->
                Param("search", req.search, "") \o Param("brand", req.brand, "")
                  \o Param("category", req.category, "")
                  \o Param("min_price", req.min_price, <<>>) \o Param("max_price", req.max_price, <<>>)
                  \o << <<"country", IF req.country # "" THEN req.country ELSE "pl">> >>
                  \o << <<"pages", 1>> >>
          [] route = "ebay" ->
                << <<"search", IF req.search # "" THEN req.search ELSE "laptop">>,
                   <<"page", page>>, <<"items_per_page", 50>> >>
                  \o Param("min_price", req.min_price, <<>>) \o Param("max_price", req.max_price, <<>>)

\* The failure envelope of the catch block of "vinted1" (lines 135-147)
\* and of "ebay" (lines 77-89).
UnavailableResponse(route) ==
    [status       |-> 503,
     success      |-> FALSE,
     error        |-> IF route = "ebay"
                      THEN "eBay API is currently unavailable. Please try again later."
                      ELSE "Vinted API is currently unavailable. Please try again later.",
     items        |-> <<>>,
     totalResults |-> 0,
     totalPages   |-> 0,
     currentPage  |-> 1]

\* The catch block of "vinted2" (lines 259-318): one demo item, as a success.
DemoResponse ==
    [status       |-> 200,
     success      |-> TRUE,
     items        |-> << [itemId |-> <<"vinted_demo", 0>>,
                          title  |-> "Vinted API Unavailable",
                          price  |-> [value |-> <<"0", ".", "0", "0">>,
                                      currency |-> "EUR"]] >>,
     totalResults |-> 1,
     totalPages   |-> 1,
     currentPage  |-> 1,
     message      |-> "Vinted API is currently unavailable. Showing demo data."]

\* A catch block that passes the upstream's items on.
ProxyFailureKeepsItems(route, req, up) ==
    [status       |-> 503,
     success      |-> FALSE,
     error        |-> "Vinted API is currently unavailable. Please try again later.",
     items        |-> IF up.kind = "http" /\ up.ok THEN TransformItems(route, up.data) ELSE <<>>,
     totalResults |-> 0,
     totalPages   |-> 0,
     currentPage  |-> 1]

\* What a catch block answers.
ProxyFailure(route, req, up) ==
    IF route = "vinted2" THEN DemoResponse ELSE UnavailableResponse(route)

\* What the route answers when fetch resolved with a 2xx body that says
\* success.
ProxySuccess(route, req, up) ==
    CASE route = "vinted1" ->
            LET items == TransformItems(route, up.data)
            IN  [status       |-> 200,
                 success      |-> TRUE,
                 items        |-> IF req.min_price # <<>> \/ req.max_price # <<>>
                                  THEN SelectSeq(items, LAMBDA it :
                                          PassesPriceFilter(it, req.min_price, req.max_price))
                                  ELSE items,
                 totalResults |-> up.pagination.total_items,
                 totalPages   |-> up.pagination.total_pages,
                 currentPage  |-> up.pagination.current_page,
                 message      |-> "Vinted search completed successfully."]
      [] route = "vinted2" ->
            [status       |-> 200,
             success      |-> TRUE,
             items        |-> TransformItems(route, up.data),
             totalResults |-> up.count,
             totalPages   |-> 1,
             currentPage  |-> 1,
             message      |-> "Vinted search completed successfully."]
      [] route = "ebay" ->
            [status |-> 200, success |-> TRUE, data |-> up.data, count |-> up.count,
             pagination |-> up.pagination]

\* The whole of GET after the fetch has settled: a rejected fetch, a non-2xx
\* status, an unreadable body and `success: false` all throw into the catch.
ProxyResponse(route, req, up) ==
    IF up.kind = "http" /\ up.ok /\ up.success
    THEN ProxySuccess(route, req, up)
    ELSE ProxyFailure(route, req, up)

\* The items the scraping API holds.
UpstreamData ==
    { <<>>,
      << [Title |-> "Dior bag", Price |-> <<"9", ",", "5", " ", "zl">>, Currency |-> "PLN"] >>,
      << [Title |-> "Dior bag", Price |-> <<"9", ",", "5", " ", "zl">>, Currency |-> "PLN"],
         [Title |-> "Prada bag", Price |-> <<"4">>, Currency |-> "EUR"] >> }

\* What the scraping API can answer: no answer at all, a non-2xx status, a
\* 2xx body that is no JSON, a body that says failure (which may still carry
\* items), a body that says success.
UpstreamAnswers ==
    { [kind |-> "network_error"], [kind |-> "bad_json"] }
    \cup { [kind |-> "http", ok |-> FALSE, status |-> st, success |-> FALSE, data |-> <<>>,
            count |-> 0, pagination |-> [total_items |-> 0, total_pages |-> 0, current_page |-> 1]]
            : st \in {404, 500} }
    \cup { [kind |-> "http", ok |-> TRUE, status |-> 200, success |-> sc, data |-> d,
            count |-> Len(d),
            pagination |-> [total_items |-> Len(d), total_pages |-> 1, current_page |-> 1]]
            : sc \in BOOLEAN, d \in UpstreamData }

InitPrx ==
    /\ prxRoute \in {"vinted1", "vinted2", "ebay"}
    /\ prxPc = "start"
    /\ prxReq \in [search : {"", "dior"}, brand : {"", "Dior"}, category : {""},
                   country : {"", "fr"},
                   min_price : {<<>>, <<"0">>, <<"5">>}, max_price : {<<>>, <<"0">>, <<"8">>},
                   page : {<<>>, <<"2">>}]
    /\ prxUpstream = [kind |-> "none"]
    /\ prxOutbound = <<>>
    /\ prxResp = NoResp
    /\ AggIdle
    /\ ScrIdle
    /\ UiIdle

\* GET builds the URL and awaits fetch: one outbound call.
PrxFetch ==
    /\ prxPc = "start"
    /\ prxPc' = "fetching"
    /\ prxOutbound' = Append(prxOutbound, OutboundParams(prxRoute, prxReq))
    /\ UNCHANGED <<prxRoute, prxReq, prxUpstream, prxResp>>
    /\ UNCHANGED <<aggVars, scrVars, uiVars>>

\* The fetch settles and GET answers.
PrxAnswer ==
    /\ prxPc = "fetching"
    /\ \E up \in UpstreamAnswers :
          /\ prxUpstream' = up
          /\ prxResp' = ProxyResponse(prxRoute, prxReq, up)
    /\ prxPc' = "done"
    /\ UNCHANGED <<prxRoute, prxReq, prxOutbound>>
    /\ UNCHANGED <<aggVars, scrVars, uiVars>>

NextPrx ==
    \/ PrxFetch
    \/ PrxAnswer

SpecPrx == InitPrx /\ [][NextPrx]_vars

(***************************************************************************)
(* The Home page at run time.  An event handler runs against the state of  *)
(* the last render; its state updates are applied together, the component  *)
(* renders again and the effects whose dependencies changed run, which may *)
(* update the state again, until nothing changes.                          *)
(***************************************************************************)

\* The user may handle this many events after the page has mounted.
MaxUserEvents == 2

\* The effect of lines 77-91: every filter back to the platform's defaults.
ResetToDefaults(s) ==
    LET config == platformConfigs(s.selectedPlatform)
    IN  [s EXCEPT !.searchQuery     = config.defaultSearchQuery,
                  !.selectedBrands  = config.defaultBrands,
                  !.selectedCountry = config.defaultCountry,
                  !.minPrice        = config.defaultMinPrice,
                  !.maxPrice        = config.defaultMaxPrice,
                  !.currentPage     = 1,
                  !.bags            = <<>>,
                  !.resultsCount    = 0,
                  !.totalPages      = 0]

\* The dependencies of useCallback (line 166) that are compared by value;
\* selectedBrands is an array and differs whenever it was set.
DepsDiffer(a, b) ==
    \/ a.sortBy # b.sortBy
    \/ a.minPrice # b.minPrice
    \/ a.maxPrice # b.maxPrice
    \/ a.searchQuery # b.searchQuery
    \/ a.selectedCountry # b.selectedCountry
    \/ a.selectedPlatform # b.selectedPlatform

\* One fetch call of searchBags.
Fetch(url, page, by) == [url |-> url, page |-> page, by |-> by, status |-> "pending"]

\* The effects after a render of state cur, where changed says which
\* dependencies differ from the render before: the platform effect (77-91),
\* the brand effect (94-99) and the search effect (223-225), in this order,
\* all three reading cur; then the next render, and so on.  The result is
\* the state that is left and the fetch calls made on the way.
RECURSIVE RunEffects(_, _, _, _)
RunEffects(cur, changed, by, made) ==
    IF ~changed.platform /\ ~changed.brands /\ ~changed.searchBags
    THEN [state |-> cur, made |-> made]
    ELSE LET s1 == IF changed.platform THEN ResetToDefaults(cur) ELSE cur
             s2 == IF /\ changed.brands \/ changed.platform
                      /\ cur.selectedPlatform = "vinted"
                      /\ Len(cur.selectedBrands) > 0
                   THEN [s1 EXCEPT !.searchQuery = JoinWith(cur.selectedBrands, <<" ">>)]
                   ELSE s1
             s3 == IF changed.searchBags
                   THEN [s2 EXCEPT !.loading = TRUE, !.error = "null"]
                   ELSE s2
         IN  RunEffects(s3,
                        [platform   |-> FALSE,
                         brands     |-> changed.platform,
                         searchBags |-> changed.platform \/ DepsDiffer(cur, s3)],
                        by,
                        IF changed.searchBags
                        THEN Append(made, Fetch(SearchUrl(cur, 1), 1, by))
                        ELSE made)

\* A handler took the state from s0 to s1, setting selectedBrands or not,
\* and made the fetch calls in made itself.
AfterHandler(s0, s1, brandsSet, by, made) ==
    RunEffects(s1,
               [platform   |-> s0.selectedPlatform # s1.selectedPlatform,
                brands     |-> brandsSet,
                searchBags |-> brandsSet \/ DepsDiffer(s0, s1)],
               by, made)

\* What the user can type into the query box.
TypedQueries == { <<" ">>, <<" ", "prada">> }

\* What the user can pick in the other controls.
PickedBrands == { BrandPrada }
PickedCountries == { "EBAY_US" }
PickedPrices == { <<"5", "0">> }
PickedSortKeys == { "title" }

\* The number of results the server finds for a search that finds any.
FoundItems == 25

\* The items of one page of n results, as the routes paginate them.
PageItems(n, page) ==
    LET first == (page - 1) * itemsPerPage + 1
        last  == Min(page * itemsPerPage, n)
    IN  [k \in 1..Max(0, last - first + 1) |-> first + k - 1]

\* The success envelope both routes answer /api/luxury-bags and /vinted with
\* (src/app/api/[...slug]/route.ts:166-173, src/app/vinted/route.ts:126-133):
\* the page of items is the field `items`.
SearchEnvelope(n, page) ==
    [status       |-> 200,
     success      |-> TRUE,
     items        |-> PageItems(n, page),
     totalResults |-> n,
     totalPages   |-> MathCeilDiv(n, itemsPerPage),
     currentPage  |-> page,
     message      |-> "Search completed."]

\* What a fetch of searchBags can settle with: the envelope of a search
\* that found results on two pages, of one that found nothing, and the
\* failure response of the route the URL names.
UiAnswers(f) ==
    { SearchEnvelope(FoundItems, f.page),
      SearchEnvelope(0, f.page),
      IF f.url.path = "/vinted"
      THEN UnavailableResponse("vinted1")
      ELSE FailureResponse([class |-> "network", data |-> "",
                            message |-> "connect ECONNREFUSED"]) }

\* `HTTP error! status: ${response.status}`
HttpErrorMessage(status) ==
    IF status = 503 THEN "HTTP error! status: 503" ELSE "HTTP error! status: 500"

\* data.<name> || otherwise, for a field the body may lack.
FieldOr(body, name, otherwise) ==
    IF name \in DOMAIN body /\ body[name] # otherwise THEN body[name] ELSE otherwise

\* Lines 145-157: what searchBags makes of a response: the values it stores
\* or the message of the error it throws.
ReadResponse(r) ==
    IF r.status \notin 200..299
    THEN [ok |-> FALSE,
          message |-> IF FieldOr(r, "details", "") # "" THEN r.details
                      ELSE HttpErrorMessage(r.status)]
    ELSE IF r.success
    THEN [ok           |-> TRUE,
          bags         |-> FieldOr(r, "data", <<>>),
          resultsCount |-> FieldOr(r, "totalResults", 0),
          totalPages   |-> FieldOr(r, "totalPages", 0),
          currentPage  |-> FieldOr(r, "currentPage", 1)]
    ELSE [ok |-> FALSE,
          message |-> IF FieldOr(r, "details", "") # "" THEN r.details
                      ELSE "API returned an error."]

InitUi ==
    /\ uiPc = "unmounted"
    /\ ui = UseStateInit
    /\ fetches = <<>>
    /\ uiEvents = 0
    /\ pagination = NoPagination
    /\ AggIdle
    /\ ScrIdle
    /\ PrxIdle

\* The first render and its effects: all three effects run.
UiMount ==
    /\ uiPc = "unmounted"
    /\ LET r == RunEffects(ui, [platform |-> TRUE, brands |-> TRUE, searchBags |-> TRUE],
                           "mount", <<>>)
       IN  /\ ui' = r.state
           /\ fetches' = fetches \o r.made
    /\ uiPc' = "mounted"
    /\ UNCHANGED <<uiEvents, pagination>>
    /\ UNCHANGED <<aggVars, scrVars, prxVars>>

\* A user event whose handler takes the state to s1 and calls fetch for the
\* URLs in made.
UiHandle(s1, brandsSet, by, made) ==
    /\ uiPc = "mounted"
    /\ uiEvents < MaxUserEvents
    /\ LET r == AfterHandler(ui, s1, brandsSet, by, made)
       IN  /\ ui' = r.state
           /\ fetches' = fetches \o r.made
    /\ uiEvents' = uiEvents + 1
    /\ UNCHANGED <<uiPc, pagination>>
    /\ UNCHANGED <<aggVars, scrVars, prxVars>>

\* onChange of the query box: setSearchQuery(e.target.value).
UiTypeQuery(v) == UiHandle([ui EXCEPT !.searchQuery = v], FALSE, "type", <<>>)

\* handleSearch, from the Search button or the Enter key.
UiSearch ==
    UiHandle([ui EXCEPT !.currentPage = 1, !.loading = TRUE, !.error = "null"],
             FALSE, "search", <<Fetch(SearchUrl(ui, 1), 1, "search")>>)

\* handleClearSearch; the button is rendered while the query is not empty.
UiClearSearch ==
    /\ ui.searchQuery # <<>>
    /\ UiHandle([ui EXCEPT !.searchQuery = <<>>, !.currentPage = 1], FALSE, "clear", <<>>)

\* handleBrandChange(brand)
UiBrand(brand) == UiHandle([ui EXCEPT !.selectedBrands = <<brand>>], TRUE, "brand", <<>>)

UiCountry(c) == UiHandle([ui EXCEPT !.selectedCountry = c], FALSE, "country", <<>>)

\* parseInt(e.target.value) || 0
PriceInput(v) == IF DigitPrefix(v) = <<>> THEN 0 ELSE ParseInt(v)

UiMinPrice(v) == UiHandle([ui EXCEPT !.minPrice = PriceInput(v)], FALSE, "minPrice", <<>>)

UiMaxPrice(v) == UiHandle([ui EXCEPT !.maxPrice = PriceInput(v)], FALSE, "maxPrice", <<>>)

\* onChange of the sort select, rendered while results are shown.
UiSort(k) ==
    /\ ~ui.loading /\ ui.resultsCount > 0
    /\ UiHandle([ui EXCEPT !.sortBy = k], FALSE, "sort", <<>>)

UiPlatform(p) == UiHandle([ui EXCEPT !.selectedPlatform = p], FALSE, "platform", <<>>)

\* handlePageChange(pageNumber), from a link of Pagination, which is
\* rendered while there is more than one page.
UiPage(pageNumber) ==
    /\ ~ui.loading /\ ui.totalPages > 1
    /\ IF pageNumber < 1 \/ pageNumber > ui.totalPages
       THEN UiHandle(ui, FALSE, "page", <<>>)
       ELSE UiHandle([ui EXCEPT !.currentPage = pageNumber, !.loading = TRUE,
                                !.error = "null"],
                     FALSE, "page", <<Fetch(SearchUrl(ui, pageNumber), pageNumber, "page")>>)

\* Lines 144-165: fetch i settles with response r and searchBags stores the
\* outcome.
UiReceive(i, r) ==
    /\ uiPc = "mounted"
    /\ fetches[i].status = "pending"
    /\ ui' = LET read == ReadResponse(r)
             IN  IF read.ok
                 THEN [ui EXCEPT !.bags = read.bags,
                                 !.resultsCount = read.resultsCount,
                                 !.totalPages = read.totalPages,
                                 !.currentPage = read.currentPage,
                                 !.loading = FALSE]
                 ELSE [ui EXCEPT !.error = read.message, !.bags = <<>>,
                                 !.resultsCount = 0, !.totalPages = 0,
                                 !.loading = FALSE]
    /\ fetches' = [fetches EXCEPT ![i].status = "settled"]
    /\ UNCHANGED <<uiPc, uiEvents, pagination>>
    /\ UNCHANGED <<aggVars, scrVars, prxVars>>

UiSettle(i) == \E r \in UiAnswers(fetches[i]) : UiReceive(i, r)

NextUi ==
    \/ UiMount
    \/ \E v \in TypedQueries : UiTypeQuery(v)
    \/ UiSearch
    \/ UiClearSearch
    \/ \E b \in PickedBrands : UiBrand(b)
    \/ \E c \in PickedCountries : UiCountry(c)
    \/ \E v \in PickedPrices : UiMinPrice(v)
    \/ \E v \in PickedPrices : UiMaxPrice(v)
    \/ \E k \in PickedSortKeys : UiSort(k)
    \/ \E p \in {"ebay", "vinted"} : UiPlatform(p)
    \/ \E n \in {1, ui.currentPage - 1, ui.currentPage + 1, ui.totalPages} : UiPage(n)
    \/ \E i \in 1..Len(fetches) : UiSettle(i)

SpecUi == InitUi /\ [][NextUi]_vars

\* Every fetch settles: the promise of fetch resolves or rejects.
SpecUiFair == SpecUi /\ WF_vars(\E i \in 1..Len(fetches) : UiSettle(i))

(***************************************************************************)
(* The Pagination component (src/app/page.tsx, lines 461-525, and the same *)
(* text in src/unnamed/part_000, lines 160-224): its page list as a        *)
(* function of the props, and its links.                                   *)
(***************************************************************************)

\* The largest number of pages the component is given.
MaxTotalPages == 12

\* The entries of the page list: a page number, or the text '...'.
PageLink(n) == [number |-> n]
Ellipsis == [text |-> "..."]

\* typeof num === 'number'
IsNumber(entry) == "number" \in DOMAIN entry

\* for (let i = a; i <= b; i++) pages.push(i)
PushRange(a, b) == [k \in 1..Max(0, b - a + 1) |-> PageLink(a + k - 1)]

\* A page list that starts the leading ellipsis one page early.
getPageNumbersEarlyEllipsis(currentPage, totalPages) ==
    IF totalPages <= 7 THEN PushRange(1, totalPages)
    ELSE LET start == IF currentPage >= totalPages - 3 THEN totalPages - 5
                      ELSE IF currentPage <= 4 THEN 2
                      ELSE Max(2, currentPage - 2)
             end   == IF currentPage >= totalPages - 3 THEN totalPages - 1
                      ELSE IF currentPage <= 4 THEN 6
                      ELSE Min(totalPages - 1, currentPage + 2)
         IN  <<PageLink(1)>>
             \o (IF currentPage > 3 THEN <<Ellipsis>> ELSE <<>>)
             \o PushRange(start, end)
             \o (IF currentPage < totalPages - 3 THEN <<Ellipsis>> ELSE <<>>)
             \o <<PageLink(totalPages)>>

\* getPageNumbers: every page up to seven; beyond that the first page, a
\* window of five pages and the last page, with '...' where pages are left
\* out.  Of the two assignments to start and end the later one wins.
getPageNumbers(currentPage, totalPages) ==
    IF totalPages <= 7 THEN PushRange(1, totalPages)
    ELSE LET start == IF currentPage >= totalPages - 3 THEN totalPages - 5
                      ELSE IF currentPage <= 4 THEN 2
                      ELSE Max(2, currentPage - 2)
             end   == IF currentPage >= totalPages - 3 THEN totalPages - 1
                      ELSE IF currentPage <= 4 THEN 6
                      ELSE Min(totalPages - 1, currentPage + 2)
         IN  <<PageLink(1)>>
             \o (IF currentPage > 4 THEN <<Ellipsis>> ELSE <<>>)
             \o PushRange(start, end)
             \o (IF currentPage < totalPages - 3 THEN <<Ellipsis>> ELSE <<>>)
             \o <<PageLink(totalPages)>>

\* The component is given its props: any page count and any current page.
InitPag ==
    /\ \E total \in 1..MaxTotalPages, current \in 1..MaxTotalPages :
          pagination = [pc |-> "props", currentPage |-> current, totalPages |-> total,
                        pageNumbers |-> <<>>]
    /\ HomeIdle
    /\ AggIdle
    /\ ScrIdle
    /\ PrxIdle

\* Line 497: the component renders and computes its page list.
PagRender ==
    /\ pagination.pc = "props"
    /\ pagination' = [pagination EXCEPT
                        !.pageNumbers = getPageNumbers(pagination.currentPage,
                                                       pagination.totalPages),
                        !.pc = "rendered"]
    /\ UNCHANGED <<uiPc, ui, fetches, uiEvents>>
    /\ UNCHANGED <<aggVars, scrVars, prxVars>>

\* The page numbers the links hand to onPageChange: First, Prev, the
\* numeric entries, Next, Last (lines 502-521).
LinkTargets(p) ==
    {1, p.currentPage - 1, p.currentPage + 1, p.totalPages}
    \cup { p.pageNumbers[k].number :
             k \in { j \in 1..Len(p.pageNumbers) : IsNumber(p.pageNumbers[j]) } }

\* A link is clicked: onPageChange(pageNumber), which is handlePageChange
\* (lines 247-252) and ignores a page outside 1..totalPages; the component
\* is given the new current page.
PagClick(pageNumber) ==
    /\ pagination.pc = "rendered"
    /\ pageNumber \in LinkTargets(pagination)
    /\ ~(pageNumber < 1 \/ pageNumber > pagination.totalPages)
    /\ pagination' = [pagination EXCEPT !.currentPage = pageNumber, !.pc = "props"]
    /\ UNCHANGED <<uiPc, ui, fetches, uiEvents>>
    /\ UNCHANGED <<aggVars, scrVars, prxVars>>

NextPag ==
    \/ PagRender
    \/ \E n \in 0..(MaxTotalPages + 1) : PagClick(n)

SpecPag == InitPag /\ [][NextPag]_vars

(***************************************************************************)
(* Properties of the aggregator.                                           *)
(***************************************************************************)

AggAnswered == aggPc = "done" /\ aggResp.status = 200

NoDuplicateIds(s) == \A i, j \in 1..Len(s) : i # j => s[i].itemId # s[j].itemId

IdsOf(s) == { s[i].itemId : i \in 1..Len(s) }

\* C1: the deduplicated list that is sorted and paginated holds no two items
\* with the same itemId, and neither does the page returned.
C1_NoDuplicateIds ==
    AggAnswered => NoDuplicateIds(uniqueItems) /\ NoDuplicateIds(aggResp.items)

\* C1 witness: the upstream answers shared an identifier and several
\* distinct listings survived.
C1_Witness ==
    /\ AggAnswered
    /\ ~NoDuplicateIds(allItems)
    /\ Len(uniqueItems) >= 2
    /\ Len(aggResp.items) >= 2

\* The first item of s with the given itemId.
FirstWithId(s, id) == s[CHOOSE i \in 1..Len(s) :
                          /\ s[i].itemId = id
                          /\ \A j \in 1..(i - 1) : s[j].itemId # id]

\* C2: of several items with the same itemId the one kept after
\* deduplication is the first of the unioned list, with its fields.
C2_KeepsFirstOccurrence ==
    AggAnswered =>
        \A i \in 1..Len(uniqueItems) :
            uniqueItems[i] = FirstWithId(allItems, uniqueItems[i].itemId)

\* s is no later than t in case-insensitive lexical order.
RECURSIVE CaseInsensitiveLeq(_, _)
CaseInsensitiveLeq(s, t) ==
    IF s = <<>> THEN TRUE
    ELSE IF t = <<>> THEN FALSE
    ELSE IF ToLower(Head(s)) = ToLower(Head(t)) THEN CaseInsensitiveLeq(Tail(s), Tail(t))
    ELSE LetterRank(ToLower(Head(s))) < LetterRank(ToLower(Head(t)))

\* C3: the whole deduplicated list is ordered by the requested key:
\* price-desc non-increasing in parsed price, title in case-insensitive
\* lexical order, anything else (price-asc, missing, unrecognised)
\* non-decreasing in parsed price.
C3_SortedByRequestedKey ==
    AggAnswered =>
        \A i, j \in 1..Len(uniqueItems) :
            i < j =>
                CASE aggReq.sortBy = "price-desc" ->
                        ParseFloat(uniqueItems[i].price.value)
                            >= ParseFloat(uniqueItems[j].price.value)
                  [] aggReq.sortBy = "title" ->
                        CaseInsensitiveLeq(uniqueItems[i].title, uniqueItems[j].title)
                  [] OTHER ->
                        ParseFloat(uniqueItems[i].price.value)
                            <= ParseFloat(uniqueItems[j].price.value)

\* C3 witness: a title sort of three listings that arrived in another order.
C3_Witness ==
    /\ AggAnswered
    /\ aggReq.sortBy = "title"
    /\ Len(uniqueItems) = 3
    /\ uniqueItems # UniqueById(allItems, <<>>)

\* C4: for page size n >= 1 and T deduplicated items: totalResults = T,
\* totalPages is the least k with k*n >= T, a page p >= 1 holds at most n
\* items, and a page 1 <= p <= totalPages holds exactly the
\* min(n, T-(p-1)*n) items at indices [(p-1)*n, (p-1)*n+n) of the sorted list.
C4_Pagination ==
    AggAnswered /\ ItemsPerPageOf(aggReq) >= 1 =>
        LET n == ItemsPerPageOf(aggReq)
            p == PageOf(aggReq)
            T == Len(uniqueItems)
            r == aggResp
        IN  /\ r.totalResults = T
            /\ r.totalPages * n >= T
            /\ (r.totalPages - 1) * n < T
            /\ r.totalPages >= 0
            /\ p >= 1 => Len(r.items) <= n
            /\ (p >= 1 /\ p <= r.totalPages) =>
                  /\ Len(r.items) = Min(n, T - (p - 1) * n)
                  /\ \A k \in 1..Len(r.items) : r.items[k] = uniqueItems[(p - 1) * n + k]

\* C4 witness: the last, partly filled page of a three-item result.
C4_Witness ==
    /\ AggAnswered
    /\ ItemsPerPageOf(aggReq) = 2
    /\ PageOf(aggReq) = 2
    /\ Len(uniqueItems) = 3
    /\ aggResp.totalPages = 2
    /\ Len(aggResp.items) = 1

\* C5: a page number outside 1..totalPages (greater, zero or negative)
\* yields an empty items list with the totals of the query.
C5_OutOfRangePageIsEmpty ==
    AggAnswered /\ ItemsPerPageOf(aggReq) >= 1 =>
        ((PageOf(aggReq) < 1 \/ PageOf(aggReq) > aggResp.totalPages) =>
            /\ aggResp.items = <<>>
            /\ aggResp.totalResults = Len(uniqueItems)
            /\ aggResp.totalPages = MathCeilDiv(Len(uniqueItems), ItemsPerPageOf(aggReq)))

\* The identifiers of the listings of the fulfilled requests.
FulfilledIds ==
    UNION { IdsOf(promises[i].items) :
              i \in { k \in 1..Len(promises) : promises[k].status = "fulfilled" } }

\* C6: whichever search requests fail, once all have settled the answer is
\* a success envelope whose merged list is exactly the deduplicated union of
\* the listings of the fulfilled requests (empty when all failed).
C6_FailuresAreIsolated ==
    (aggPc = "done" /\ Len(promises) > 0) =>
        /\ aggResp.status = 200
        /\ aggResp.success = TRUE
        /\ IdsOf(uniqueItems) = FulfilledIds
        /\ NoDuplicateIds(uniqueItems)
        /\ aggResp.totalResults = Cardinality(FulfilledIds)

\* C6 witness: one of two requests failed and the other's listings are
\* returned.
C6_Witness ==
    /\ aggPc = "done"
    /\ Len(promises) = 2
    /\ promises[1].status = "rejected"
    /\ promises[2].status = "fulfilled"
    /\ Len(promises[2].items) = 2
    /\ aggResp.status = 200
    /\ Len(uniqueItems) >= 1

(***************************************************************************)
(* Properties of the fallback scraper.                                     *)
(***************************************************************************)

\* The failures the spec calls transient: browser, page or session closed,
\* or a navigation timeout.
TransientFailure(err) == err \in {"target_closed", "page_closed", "timeout"}

\* Every attempt of the request failed transiently and the last one gave up.
RetriesExhausted ==
    /\ scrVariant = "playwright"
    /\ scrPc = "done"
    /\ Len(frames) = 3
    /\ \A i \in 1..Len(frames) : TransientFailure(frames[i].err)
    /\ frames[Len(frames)].outcome = "throw"

Decided(f) ==
    /\ f.err # ""
    /\ f.pc \in {"closePage", "closeContext", "closeBrowser", "done"}

\* The safety half of C8: at most 3 attempts, numbered by their retry
\* count; a decided failure has a successor exactly when it is transient and
\* fewer than 2 retries were made; a finished request has a response.
C8_RetryDiscipline ==
    scrVariant = "playwright" =>
        /\ Len(frames) <= 3
        /\ \A i \in 1..Len(frames) :
              /\ frames[i].retryCount = i - 1
              /\ Decided(frames[i]) =>
                    (i < Len(frames) <=>
                        (TransientFailure(frames[i].err) /\ frames[i].retryCount < 2))
        /\ scrPc = "done" => scrResp.status \in {200, 400, 408, 500, 503}

\* C8: a failed attempt is followed by another attempt exactly when the
\* failure is transient and fewer than 2 retries were made, so a request
\* makes at most 3 attempts and a non-transient failure is never retried;
\* and every request reaches a terminal outcome.
C8_BoundedRetryAndTermination ==
    /\ [] C8_RetryDiscipline
    /\ <>(scrPc = "done")

\* C8 witness: three attempts were made and the third failure was rethrown.
C8_Witness ==
    /\ scrVariant = "playwright"
    /\ scrPc = "done"
    /\ Len(frames) = 3
    /\ frames[1].err = "target_closed"
    /\ frames[2].err = "timeout"
    /\ frames[3].err = "timeout"
    /\ frames[3].outcome = "throw"

\* C9: when the handler has produced its response no browser, context or
\* page opened by any attempt of the request is still open.
C9_NothingLeftOpen ==
    scrPc = "done" =>
        \A i \in 1..Len(frames) :
            /\ frames[i].browser # "open"
            /\ frames[i].context # "open"
            /\ frames[i].page # "open"

\* C9 witness: three attempts each opened browser, context and page, each
\* was closed, and the request degraded to the placeholder.
C9_Witness ==
    /\ scrVariant = "playwright"
    /\ scrPc = "done"
    /\ Len(frames) = 3
    /\ \A i \in 1..3 :
          /\ frames[i].browser = "closed"
          /\ frames[i].context = "closed"
          /\ frames[i].page \in {"closed", "dead"}
    /\ scrResp.fallback = TRUE

(***************************************************************************)
(* Properties of the proxy routes.                                         *)
(***************************************************************************)

\* The upstream answered with a non-2xx status or with success = false.
UpstreamFailed ==
    /\ prxPc = "done"
    /\ prxUpstream.kind = "http"
    /\ ~prxUpstream.ok \/ ~prxUpstream.success

FailureEnvelope(r) ==
    /\ r.status \in {503, 500}
    /\ r.success = FALSE
    /\ r.error \in {"Vinted API is currently unavailable. Please try again later.",
                    "eBay API is currently unavailable. Please try again later."}
    /\ r.items = <<>>

C11_MissingCredentialsFailFast ==
    ~(credentials.id /\ credentials.secret) =>
        /\ outbound = <<>>
        /\ promises = <<>>
        /\ aggPc \in {"start", "done"}
        /\ aggPc = "done" =>
              /\ aggResp.status = 400
              /\ DOMAIN aggResp = {"status", "error"}
              /\ aggResp.error = MissingCredentialsResponse.error
              /\ ~ENABLED NextAgg

\* The secret is missing, the id is set, and GET has answered.
C11_Witness ==
    /\ credentials.id /\ ~credentials.secret
    /\ aggPc = "done"
    /\ aggResp.status = 400

(***************************************************************************)
(* C12: price bounds.                                                      *)
(***************************************************************************)

\* The price the local filter of "vinted1" parses out of an item.
ParsedPrice(item) == ParseFloat(ReplaceFirstComma(KeepPriceChars(item.price.value)))

\* C12: when the request to "vinted1" carries both min_price and max_price,
\* every item of a successful response has a parsed price p with
\* min <= p <= max, whatever the two bounds are (max = 0 included).
C12_PricesWithinBounds ==
    (/\ prxRoute = "vinted1"
     /\ prxPc = "done"
     /\ prxResp.status = 200
     /\ prxReq.min_price # <<>>
     /\ prxReq.max_price # <<>>) =>
        \A k \in 1..Len(prxResp.items) :
            /\ ~IsNaNFloat(ReplaceFirstComma(KeepPriceChars(prxResp.items[k].price.value)))
            /\ ParseFloat(prxReq.min_price) <= ParsedPrice(prxResp.items[k])
            /\ ParsedPrice(prxResp.items[k]) <= ParseFloat(prxReq.max_price)

(***************************************************************************)
(* C13: free-text query against brand filters.                             *)
(***************************************************************************)

\* The aggregator and the Home page side by side: each behaviour runs one of
\* the two while the other rests.
SpecAggUi == (InitFan \/ InitUi) /\ [][NextFan \/ NextUi]_vars

HasParam(url, name) == \E k \in 1..Len(url.params) : url.params[k][1] = name

ParamValue(url, name) ==
    url.params[CHOOSE k \in 1..Len(url.params) : url.params[k][1] = name][2]

RangeOf(s) == { s[k] : k \in 1..Len(s) }

TermCount ==
    IF Trim(aggReq.search) # <<>> THEN 1
    ELSE IF aggReq.brands # <<>>
         THEN 1 + Cardinality({ k \in 1..Len(aggReq.brands) : aggReq.brands[k] = "," })
         ELSE 7

\* The number of marketplaces searched: 13 for ALL, 1 for a supported
\* marketplace id (EBAY_AU when the request names none), else 0.
MarketplaceCount ==
    LET country == IF aggReq.country = "" THEN "EBAY_AU" ELSE aggReq.country
    IN  IF country = "ALL" THEN 13
        ELSE IF country \in RangeOf(marketplaces) THEN 1 ELSE 0

SearchesSent == Cardinality({ k \in 1..Len(outbound) : outbound[k] = "search" })

\* C14: before the fan-out no search has been sent; from the fan-out on the
\* searches sent are TermCount * MarketplaceCount, one promise for each and
\* no two promises for the same (marketplace, term); all of them exist
\* while the first is still pending; with no marketplace matching, nothing
\* is sent and the answer, once the token has arrived, is a success with no
\* items.
C14_OneRequestPerTermAndMarketplace ==
    /\ aggPc \in {"start", "token"} => promises = <<>> /\ SearchesSent = 0
    /\ (aggPc \in {"settle", "done"} /\ aggResp.status \notin {400, 500}) =>
          /\ Len(promises) = TermCount * MarketplaceCount
          /\ SearchesSent = Len(promises)
          /\ \A i, j \in 1..Len(promises) :
                (promises[i].mp = promises[j].mp /\ promises[i].q = promises[j].q) => i = j
          /\ \A i \in 1..Len(promises) :
                /\ promises[i].mp \in RangeOf(marketplaces)
                /\ aggReq.country \notin {"", "ALL"} => promises[i].mp = aggReq.country
          /\ MarketplaceCount = 13 => { promises[i].mp : i \in 1..Len(promises) } = RangeOf(marketplaces)
          /\ (MarketplaceCount = 0 /\ aggPc = "done") =>
                /\ aggResp.status = 200
                /\ aggResp.success
                /\ aggResp.items = <<>>
                /\ aggResp.totalResults = 0

\* Seven default brands on thirteen marketplaces: 91 searches are out and
\* none has been answered yet.
C14_Witness ==
    /\ aggPc = "settle"
    /\ Len(promises) = 91
    /\ \A i \in 1..Len(promises) : promises[i].status = "pending"

\* An unlisted marketplace id: GET has answered without sending a search.
C14_WitnessNoMarketplace ==
    /\ aggPc = "done"
    /\ aggReq.country = "EBAY_XX"
    /\ aggResp.status = 200
    /\ SearchesSent = 0

(***************************************************************************)
(* C15: stability of the sort.                                             *)
(***************************************************************************)

\* The index of item x in the list s, which holds it once.
IndexOf(s, x) == CHOOSE k \in 1..Len(s) : s[k] = x

\* Two items have the same sort key: the same title for a title sort, the
\* same parsed price otherwise.
SameSortKey(a, b) ==
    IF aggReq.sortBy = "title" THEN a.title = b.title
    ELSE ParseFloat(a.price.value) = ParseFloat(b.price.value)

\* C15: two items with the same sort key stand in the sorted list in the
\* order they have in the deduplicated list before sorting.
C15_SortIsStable ==
    AggAnswered =>
        LET before == UniqueById(allItems, <<>>)
        IN  \A i, j \in 1..Len(uniqueItems) :
                (i < j /\ SameSortKey(uniqueItems[i], uniqueItems[j])) =>
                    IndexOf(before, uniqueItems[i]) < IndexOf(before, uniqueItems[j])

\* A title sort moved an item while two others with one title kept their
\* order.
C15_Witness ==
    /\ AggAnswered
    /\ aggReq.sortBy = "title"
    /\ Len(uniqueItems) = 3
    /\ uniqueItems # UniqueById(allItems, <<>>)
    /\ \E i, j \in 1..3 : i < j /\ uniqueItems[i].title = uniqueItems[j].title

(***************************************************************************)
(* C16: what an error response gives away.                                 *)
(***************************************************************************)

\* C16: the body of the aggregator's failure response does not depend on
\* the content of the error caught: it is the body every error of some one
\* class would have produced.
C16_ErrorBodyIsGeneric ==
    (aggPc = "done" /\ aggResp.status = 500) =>
        \E c \in { e.class : e \in TokenErrors } :
            \A e \in TokenErrors : e.class = c => aggResp = FailureResponse(e)

(***************************************************************************)
(* C17: the catch-all route and the request path.                          *)
(***************************************************************************)

\* The path holds one of the keywords of the eBay backend.
PathNamesEbay(path) == \E k \in 1..Len(path) : path[k] \in {"ebay", "luxury-bags"}

\* GET went down the eBay code path: it tested the eBay credentials and
\* answered 400, or it requested an eBay token.
EbayPathTaken == aggResp.status = 400 \/ outbound # <<>>

\* C17: the catch-all route serves a request by the eBay code path exactly
\* when its path contains ebay or luxury-bags; a path that contains
\* vinted, or none of the keywords, is not served by the eBay code path.
C17_BackendChosenFromPath ==
    aggPc = "done" => (EbayPathTaken <=> PathNamesEbay(aggReq.path))

(***************************************************************************)
(* C18: failures of the closing steps.                                     *)
(***************************************************************************)

ClosingPcs == {"closePage", "closeContext", "closeBrowser"}

\* C18: a step of the finally block, whether its close succeeds or throws,
\* leaves the outcome of the scrape as it was (the items to return or the
\* error to throw), and goes on to the next close.
C18_CloseFailureKeepsOutcome ==
    [][\A i \in 1..Len(frames) :
          (frames[i].pc \in ClosingPcs /\ Len(frames') >= i) =>
              /\ frames'[i].outcome = frames[i].outcome
              /\ frames'[i].items = frames[i].items
              /\ frames'[i].err = frames[i].err]_vars

(***************************************************************************)
(* C19: what makes the Home page search.                                   *)
(***************************************************************************)

\* C19: every fetch of the Home page was made by the first load, by
\* handleSearch (button or Enter), by a page change or by a change of the
\* sort order; typing in the query box and changing a price bound, the
\* brand, the country or the platform make none.
C19_RequestsOnlyOnSubmit ==
    \A i \in 1..Len(fetches) : fetches[i].by \in {"mount", "search", "page", "sort"}

(***************************************************************************)
(* C20: the default price bounds.                                          *)
(***************************************************************************)

\* The aggregator with wide fan-outs and the proxy routes side by side.
SpecFanPrx == (InitFan \/ InitPrx) /\ [][NextFan \/ NextPrx]_vars

\* C20 as claimed, for the aggregator: a request without maxPrice puts no
\* upper bound into the price filter of its searches.
C20_NoMaximumMeansUnbounded ==
    aggReq.maxPrice = "" => \A i \in 1..Len(promises) : promises[i].filter[2] = ""

\* The items "vinted1" has to choose from, and whether one has a price.
OfferedItems == TransformItems("vinted1", prxUpstream.data)

HasPrice(item) == ~IsNaNFloat(ReplaceFirstComma(KeepPriceChars(item.price.value)))

\* C20, amended: the aggregator's price filter is [min..max] with min 0
\* and max 1000 where the request gives none.  The first Vinted proxy sends
\* no max_price upstream when the request has none and then drops no priced
\* item at or above the minimum (0 when the request has none either); when
\* the request has a maximum but no minimum it drops no priced item at or
\* below the maximum.
C20_DefaultBoundsPerRoute ==
    /\ \A i \in 1..Len(promises) :
          promises[i].filter = <<IF aggReq.minPrice = "" THEN "0" ELSE aggReq.minPrice,
                                 IF aggReq.maxPrice = "" THEN "1000" ELSE aggReq.maxPrice>>
    /\ (prxRoute = "vinted1" /\ prxPc # "idle" /\ prxReq.max_price = <<>>) =>
          \A k \in 1..Len(OutboundParams(prxRoute, prxReq)) :
              OutboundParams(prxRoute, prxReq)[k][1] # "max_price"
    /\ (prxRoute = "vinted1" /\ prxPc = "done" /\ prxResp.status = 200) =>
          /\ prxReq.max_price = <<>> =>
                \A k \in 1..Len(OfferedItems) :
                    (/\ HasPrice(OfferedItems[k])
                     /\ ParsedPrice(OfferedItems[k]) >=
                           (IF prxReq.min_price = <<>> THEN 0 ELSE ParseFloat(prxReq.min_price)))
                    => OfferedItems[k] \in RangeOf(prxResp.items)
          /\ (prxReq.min_price = <<>> /\ prxReq.max_price # <<>>) =>
                \A k \in 1..Len(OfferedItems) :
                    (/\ HasPrice(OfferedItems[k])
                     /\ ParsedPrice(OfferedItems[k]) <= ParseFloat(prxReq.max_price))
                    => OfferedItems[k] \in RangeOf(prxResp.items)

\* A request with a minimum and no maximum has sent its searches with the
\* filter [50..1000].
C20_Witness ==
    /\ aggPc = "settle"
    /\ aggReq.minPrice = "50"
    /\ aggReq.maxPrice = ""
    /\ Len(promises) > 0
    /\ promises[1].filter = <<"50", "1000">>

\* The proxy answered a request with a minimum and no maximum, keeping the
\* dearer of two items and dropping the cheaper.
C20_WitnessProxy ==
    /\ prxRoute = "vinted1"
    /\ prxPc = "done"
    /\ prxResp.status = 200
    /\ prxReq.min_price = <<"5">>
    /\ prxReq.max_price = <<>>
    /\ Len(OfferedItems) = 2
    /\ Len(prxResp.items) = 1

(***************************************************************************)
(* C21: what the proxy routes send upstream.                               *)
(***************************************************************************)

\* The options of the inbound request the claim names.
OptionalOptions == {"search", "brand", "category", "min_price", "max_price", "country"}

\* What an option that is missing or empty reads as.
NoValue(name) == IF name \in {"min_price", "max_price"} THEN <<>> ELSE ""

\* The value the call sends for a name; NoValue(name) when it sends none.
SentValue(call, name) ==
    IF \E k \in 1..Len(call) : call[k][1] = name
    THEN call[CHOOSE k \in 1..Len(call) : call[k][1] = name][2]
    ELSE NoValue(name)

Sends(call, name) == \E k \in 1..Len(call) : call[k][1] = name

\* No parameter of the call has an empty value; the page parameters are
\* numbers printed by toString.
NoEmptyValue(call) ==
    \A k \in 1..Len(call) :
        call[k][1] \in OptionalOptions => call[k][2] # NoValue(call[k][1])

\* One fetch per invocation: none before GET reaches it, one from then on.
OneOutboundCall ==
    /\ Len(prxOutbound) <= 1
    /\ prxPc \in {"fetching", "done"} => Len(prxOutbound) = 1

\* C21 as claimed: an option that is missing or empty in the inbound request
\* does not appear in the outbound query string, no parameter is sent with
\* an empty value, and each invocation makes exactly one outbound call.
C21_MissingOptionsNotSent ==
    /\ OneOutboundCall
    /\ \A i \in 1..Len(prxOutbound) :
          /\ NoEmptyValue(prxOutbound[i])
          /\ \A o \in OptionalOptions :
                prxReq[o] = NoValue(o) => ~Sends(prxOutbound[i], o)

\* The options a route sends even when the request does not give them, and
\* the value it sends then.
Defaulted(route) == IF route = "ebay" THEN {"search"} ELSE {"country"}

DefaultOf(name) == IF name = "search" THEN "laptop" ELSE "pl"

\* The options a route forwards at all.
Forwarded(route) ==
    IF route = "ebay" THEN {"search", "min_price", "max_price"} ELSE OptionalOptions

\* C21 as amended: each invocation makes exactly one outbound call, no
\* parameter is sent with an empty value, and a missing or empty option is
\* not sent, except the country of the Vinted routes, sent as "pl", and the
\* search of the eBay route, sent as "laptop".  An option that is given is
\* sent as given by the routes that forward it, and the eBay route forwards
\* only search, min_price and max_price.
C21_MissingOptionsNotSentOrDefaulted ==
    /\ OneOutboundCall
    /\ \A i \in 1..Len(prxOutbound) :
          LET call == prxOutbound[i]
          IN  /\ NoEmptyValue(call)
              /\ \A o \in OptionalOptions :
                    SentValue(call, o) =
                        IF o \notin Forwarded(prxRoute) THEN NoValue(o)
                        ELSE IF prxReq[o] # NoValue(o) THEN prxReq[o]
                        ELSE IF o \in Defaulted(prxRoute) THEN DefaultOf(o)
                        ELSE NoValue(o)

\* C21 witness: the first Vinted route answered a request that gives a brand
\* and a minimum price and neither a search nor a country, after one call.
C21_Witness ==
    /\ prxRoute = "vinted1"
    /\ prxPc = "done"
    /\ prxReq.search = "" /\ prxReq.country = "" /\ prxReq.max_price = <<>>
    /\ prxReq.brand = "Dior" /\ prxReq.min_price = <<"5">>
    /\ Len(prxOutbound) = 1
    /\ ~Sends(prxOutbound[1], "search")
    /\ SentValue(prxOutbound[1], "country") = "pl"

\* The eBay route sent its default search for a request without one.
C21_WitnessEbay ==
    /\ prxRoute = "ebay"
    /\ prxPc = "done"
    /\ prxReq.search = ""
    /\ Len(prxOutbound) = 1
    /\ SentValue(prxOutbound[1], "search") = "laptop"

(***************************************************************************)
(* Properties of the Home page: what it shows after a response.            *)
(***************************************************************************)

\* A success envelope whose page holds at least one item.
SuccessWithItems(r) ==
    /\ r.status = 200
    /\ r.success
    /\ Len(r.items) >= 1

\* C22: when the page receives a success response whose page holds k >= 1
\* items, its list of bags holds exactly those k items afterwards, so that
\* the grid has k cards and the export has data; the list is empty only
\* when the page of the response is empty.
C22_SuccessShowsItems ==
    [][\A i \in 1..Len(fetches) : \A r \in UiAnswers(fetches[i]) :
          UiReceive(i, r) /\ SuccessWithItems(r) =>
              /\ ui'.bags = r.items
              /\ Len(ui'.bags) >= 1]_vars

\* The part of the state a response decides.
SearchResult(s) ==
    [bags |-> s.bags, resultsCount |-> s.resultsCount, totalPages |-> s.totalPages,
     currentPage |-> s.currentPage, error |-> s.error]

\* C23: with several requests in flight, the result shown when all have
\* completed is that of the request issued last: a response to an older
\* request does not overwrite the result of a newer one that has already
\* completed.
C23_LatestRequestWins ==
    [][\A i \in 1..Len(fetches) : \A r \in UiAnswers(fetches[i]) :
          /\ UiReceive(i, r)
          /\ \E j \in (i + 1)..Len(fetches) : fetches[j].status = "settled"
          => SearchResult(ui') = SearchResult(ui)]_vars

(***************************************************************************)
(* Properties of the fallback scraper: browser sessions.                   *)
(***************************************************************************)

\* The attempts whose browser is running.
OpenBrowsers == { i \in 1..Len(frames) : frames[i].browser = "open" }

\* C24: during one request at most one browser session is open at any time:
\* a retry attempt has a browser only when browser, context and page of the
\* attempt before it are closed.
C24_OneBrowserAtATime ==
    /\ Cardinality(OpenBrowsers) <= 1
    /\ \A i \in 2..Len(frames) :
          frames[i].browser = "open" =>
              /\ frames[i - 1].browser # "open"
              /\ frames[i - 1].context # "open"
              /\ frames[i - 1].page # "open"

\* C25: in every state of the Home page currentPage lies between 1 and
\* max(1, totalPages).
C25_CurrentPageInRange ==
    uiPc = "mounted" =>
        /\ 1 <= ui.currentPage
        /\ ui.currentPage <= Max(1, ui.totalPages)

(***************************************************************************)
(* Properties of the aggregator: order of completion, token request.       *)
(***************************************************************************)

\* The same outcomes per request, completed in the order of issue.
InIssueOrder(ps) == [i \in 1..Len(ps) |-> [ps[i] EXCEPT !.settledAt = i]]

\* The items of the fulfilled requests, request by request in issue order.
IssueOrderUnion(ps) ==
    LET upTo[k \in 0..Len(ps)] ==
            IF k = 0 THEN <<>>
            ELSE upTo[k - 1] \o (IF ps[k].status = "fulfilled" THEN ps[k].items ELSE <<>>)
    IN  upTo[Len(ps)]

\* C26: the response does not depend on the order in which the searches
\* complete: the merged list is the union in issue order, and the
\* deduplicated and sorted list, the page and the totals are those of the
\* run in which the same outcomes arrive in issue order.
C26_IndependentOfCompletionOrder ==
    AggAnswered =>
        /\ allItems = IssueOrderUnion(promises)
        /\ uniqueItems = Join(InIssueOrder(promises), aggReq).unique
        /\ aggResp = Join(InIssueOrder(promises), aggReq).resp

\* C26 witness: two searches completed against the order of issue, both
\* with items, one listing in both answers with different fields.
C26_Witness ==
    /\ AggAnswered
    /\ Len(promises) = 2
    /\ promises[1].settledAt = 2
    /\ promises[2].settledAt = 1
    /\ promises[1].status = "fulfilled" /\ promises[2].status = "fulfilled"
    /\ \E i \in 1..Len(promises[1].items), j \in 1..Len(promises[2].items) :
          /\ promises[1].items[i].itemId = promises[2].items[j].itemId
          /\ promises[1].items[i] # promises[2].items[j]
    /\ aggResp.totalResults >= 2

\* The token requests sent so far.
TokensRequested == Cardinality({ k \in 1..Len(outbound) : outbound[k] = "token" })

\* The token request failed: GET answered from its catch block.
TokenFailed == aggPc = "done" /\ aggResp.status = 500

\* C27 as claimed: every inbound request makes exactly one token request,
\* which completes before any search is issued; when it fails no search is
\* issued and the response is 500 without items.
C27_OneTokenPerRequest ==
    /\ aggPc = "done" => TokensRequested = 1
    /\ aggPc = "token" => SearchesSent = 0
    /\ TokenFailed => SearchesSent = 0 /\ "items" \notin DOMAIN aggResp

\* C27 as amended: a request that passes the credentials check makes
\* exactly one token request, as its first outbound request, and no search
\* is issued while the token is awaited; a request that fails the check
\* makes none.  When the token request fails no search is issued and the
\* response is 500 without items.
C27_OneTokenAfterCredentialsCheck ==
    /\ TokensRequested <= 1
    /\ aggPc \in {"token", "settle", "done"} =>
          TokensRequested = IF CredentialsPresent(credentials) THEN 1 ELSE 0
    /\ outbound # <<>> => outbound[1] = "token"
    /\ aggPc \in {"start", "token"} => SearchesSent = 0 /\ promises = <<>>
    /\ TokenFailed =>
          /\ outbound = <<"token">>
          /\ promises = <<>>
          /\ "items" \notin DOMAIN aggResp
          /\ allItems = <<>> /\ uniqueItems = <<>>

\* C27 witness: the token request failed and GET answered 500.
C27_Witness ==
    /\ TokenFailed
    /\ CredentialsPresent(credentials)
    /\ TokensRequested = 1

\* The token arrived and two searches followed it.
C27_WitnessSearches ==
    /\ aggPc = "settle"
    /\ outbound = <<"token", "search", "search">>

\* The requests of searchBags that have not settled.
InFlight == { i \in 1..Len(fetches) : fetches[i].status = "pending" }

\* C28: the loading flag is true whenever at least one search request is in
\* flight; with two overlapping requests the completion of the first does
\* not clear it.
C28_LoadingWhileInFlight ==
    (uiPc = "mounted" /\ InFlight # {}) => ui.loading

(***************************************************************************)
(* Properties of the Pagination component.                                 *)
(***************************************************************************)

\* The numeric entries of a page list, in order.
NumericEntries(pages) ==
    LET nums == SelectSeq(pages, IsNumber)
    IN  [k \in 1..Len(nums) |-> nums[k].number]

\* C29: for 1 <= currentPage <= totalPages the page list has strictly
\* increasing numeric entries, starts with 1, ends with totalPages, contains
\* currentPage, is 1..totalPages when totalPages <= 7, and has '...'
\* between two consecutive numeric entries exactly when they differ by more
\* than 1.
C29_PageList ==
    LET p     == pagination
        pages == p.pageNumbers
        nums  == NumericEntries(pages)
    IN  (p.pc = "rendered" /\ 1 <= p.currentPage /\ p.currentPage <= p.totalPages) =>
            /\ \A k \in 1..(Len(nums) - 1) : nums[k] < nums[k + 1]
            /\ pages[1] = PageLink(1)
            /\ pages[Len(pages)] = PageLink(p.totalPages)
            /\ \E k \in 1..Len(nums) : nums[k] = p.currentPage
            /\ p.totalPages <= 7 =>
                  /\ Len(pages) = p.totalPages
                  /\ \A k \in 1..Len(pages) : pages[k] = PageLink(k)
            /\ \A k \in 1..(Len(pages) - 1) :
                  /\ (IsNumber(pages[k]) /\ IsNumber(pages[k + 1])) =>
                        pages[k + 1].number - pages[k].number <= 1
                  /\ ~IsNumber(pages[k]) =>
                        /\ k > 1
                        /\ IsNumber(pages[k - 1]) /\ IsNumber(pages[k + 1])
                        /\ pages[k + 1].number - pages[k - 1].number > 1

\* C29 witness: a list with '...' on both sides of the window around the
\* current page.
C29_Witness ==
    /\ pagination.pc = "rendered"
    /\ pagination.totalPages = 12
    /\ pagination.currentPage = 6
    /\ pagination.pageNumbers =
          <<PageLink(1), Ellipsis, PageLink(4), PageLink(5), PageLink(6), PageLink(7),
            PageLink(8), Ellipsis, PageLink(12)>>

\* A list of eight pages with the current page among the last four.
C29_WitnessEightPages ==
    /\ pagination.pc = "rendered"
    /\ pagination.totalPages = 8
    /\ pagination.currentPage = 5
    /\ NumericEntries(pagination.pageNumbers) = <<1, 3, 4, 5, 6, 7, 8>>

\* The filters and results as the platform's configuration resets them.
AtDefaults(s, platform) ==
    LET config == platformConfigs(platform)
    IN  /\ s.selectedPlatform = platform
        /\ s.searchQuery = config.defaultSearchQuery
        /\ s.selectedBrands = config.defaultBrands
        /\ s.selectedCountry = config.defaultCountry
        /\ s.minPrice = config.defaultMinPrice
        /\ s.maxPrice = config.defaultMaxPrice
        /\ s.currentPage = 1
        /\ s.bags = <<>>
        /\ s.resultsCount = 0
        /\ s.totalPages = 0

\* C30: when the user switches to another platform, the state after the
\* effects of the switch holds that platform's configured defaults for
\* query, brands, country and price bounds, page 1 and no results.
C30_SwitchResetsToDefaults ==
    [][\A p \in {"ebay", "vinted"} :
          (p # ui.selectedPlatform /\ UiPlatform(p)) => AtDefaults(ui', p)]_vars

\* The same for a switch to eBay alone.
C30_SwitchToEbayResets ==
    [][(ui.selectedPlatform = "vinted" /\ UiPlatform("ebay")) => AtDefaults(ui', "ebay")]_vars

=============================================================================
